---- MODULE Spec2Model ----
(***************************************************************************)
(* Model of the rental-property analysis engine (src/engine, src/models).  *)
(*                                                                         *)
(* Units.  The engine computes in exact decimals; the model keeps the same *)
(* values as integers:                                                     *)
(*   - money is in cents (Decimal("25000") is 2500000);                    *)
(*   - tax rates and percentages are in thousandths (0.37 is 370);         *)
(*   - AGI is in whole dollars, so that the phase-out's division by two    *)
(*     stays exact in cents.                                               *)
(* quantize(TWO_PLACES, ROUND_HALF_UP) is rounding to the nearest cent,    *)
(* ties away from zero.  Products are split so that no intermediate value  *)
(* leaves the 32-bit range of the model checker.                           *)
(***************************************************************************)
EXTENDS Integers, Sequences, FiniteSets, TLC

VARIABLES
    investor,        \* InvestorTaxProfile of the call under study
    assumptions,     \* DealAssumptions of the call under study
    pa_args,         \* arguments of one compute_passive_activity call
    pa_entry,        \* the PassiveActivityEntry it returned (NoEntry before)
    yearly_rental,   \* build_passive_activity_ledger: its input list
    ledger,          \* build_passive_activity_ledger: ledger.entries
    ledger_prior,    \* build_passive_activity_ledger: local prior_suspended
    ledger_pc,       \* build_passive_activity_ledger: "loop" or "returned"
    allowance_reads, \* rental_loss_allowance reads: <<[agi, pro, allowance]>>
    disp_args,       \* arguments of one compute_disposition call
    disp_result,     \* the DispositionResult it returned (NoDisposition before)
    pf_pc,           \* run_proforma: "start", "loop", "summary", "returned", "raised"
    pf_year,         \* run_proforma: the next value of the loop variable year
    yearly_debt,     \* run_proforma: yearly_debt
    projections,     \* run_proforma: projections
    passive_ledger,  \* run_proforma: passive_ledger.entries
    prior_suspended, \* run_proforma: prior_suspended
    total_dep,       \* run_proforma: total_dep
    total_tax_benefit, \* run_proforma: total_tax_benefit
    before_tax_cfs,  \* run_proforma: before_tax_cfs
    after_tax_cfs,   \* run_proforma: after_tax_cfs
    disposition,     \* run_proforma: disposition
    analysis,        \* run_proforma: the AnalysisResult's summary fields
    pa_calls,        \* run_proforma: <<year, prior_suspended>> of each
                     \* compute_passive_activity call, in call order
    sched_args,      \* arguments of one amortization_schedule call
    sched_result,    \* the AmortizationSchedule it returned
    ctor_args,       \* keyword arguments of one DealAssumptions(...) call
    ctor_pc,         \* that call: "idle", "called", "constructed", "rejected",
                     \* "passed" once the value is handed to run_proforma
    build_args,      \* arguments of one build_smart_assumptions call
    build_pc,        \* that call: "idle", "called", "constructing",
                     \* "raised ValueError", "raised TypeError", "returned"
    build_kwargs,    \* its keyword arguments for DealAssumptions(...)
    build_details,   \* its local details: field name -> AssumptionDetail
    today_year,      \* the year of datetime.date.today()
    maint_args,      \* arguments of the estimate_maintenance_pct calls
    maint_results,   \* what those calls returned, in call order
    rent_clock,      \* the day datetime.now() falls on
    rent_cache,      \* table rent_cache: cache key -> row
    api_usage,       \* table api_usage: <<tier, cache_hit>> -> number of rows
    rent_calls,      \* the estimate_rent calls: arguments, position, locals
    api_requests,    \* requests issued to the RentCast API so far
    rentcast_limit,  \* settings.rentcast_monthly_limit
    ins_args,        \* arguments of one estimate_insurance_composite call
    ins_result,      \* what it returned: <<premium, detail>>
    egi_year,        \* the year of one effective_gross_income call
    egi_result,      \* what it returned
    dep_years        \* the YearlyDepreciation of the years 1, 2, ... computed
                     \* so far by compute_yearly_depreciation

passiveVars == <<pa_args, pa_entry>>
ledgerVars == <<yearly_rental, ledger, ledger_prior, ledger_pc>>
readsVars == <<allowance_reads>>
dispVars == <<disp_args, disp_result>>
proformaVars == <<pf_pc, pf_year, yearly_debt, projections, passive_ledger,
                  prior_suspended, total_dep, total_tax_benefit,
                  before_tax_cfs, after_tax_cfs, disposition, analysis,
                  pa_calls>>

scheduleVars == <<sched_args, sched_result>>
constructionVars == <<ctor_args, ctor_pc>>
builderVars == <<build_args, build_pc, build_kwargs, build_details>>
earlierCallVars == <<scheduleVars, constructionVars, builderVars>>
maintenanceVars == <<today_year, maint_args, maint_results>>
rentVars == <<rent_clock, rent_cache, api_usage, rent_calls, api_requests,
              rentcast_limit>>
insuranceVars == <<ins_args, ins_result>>
incomeVars == <<egi_year, egi_result>>
pureVars == <<insuranceVars, incomeVars, dep_years>>
dataVars == <<maintenanceVars, rentVars, pureVars>>
otherCallVars == <<earlierCallVars, dataVars>>

vars == <<investor, assumptions, passiveVars, ledgerVars, readsVars, dispVars,
          proformaVars, otherCallVars>>

----------------------------------------------------------------------------
(* Decimal helpers *)

Min(a, b) == IF a <= b THEN a ELSE b
Max(a, b) == IF a >= b THEN a ELSE b
Abs(a) == IF a >= 0 THEN a ELSE -a

\* Rates are thousandths: Decimal("0.133") is 133.
RateScale == 1000

\* a * r = RateScale * Whole(a, r) + Frac(a, r), with Frac(a, r) >= 0 for r >= 0.
Whole(a, r) == (a \div RateScale) * r
Frac(a, r) == (a % RateScale) * r

\* (RateScale * w + f) / RateScale rounded to an integer, ties away from zero:
\* Decimal.quantize(TWO_PLACES, ROUND_HALF_UP) of an amount of cents.
QuantizeParts(w, f) ==
    IF w >= -(f \div RateScale)
    THEN w + (f + (RateScale \div 2)) \div RateScale
    ELSE w + (f + (RateScale \div 2) - 1) \div RateScale

\* (a * r).quantize(TWO_PLACES, ROUND_HALF_UP) for an amount a and a rate r.
QuantizeProduct(a, r) == QuantizeParts(Whole(a, r), Frac(a, r))

\* <<q, r>> with a * num = q * den + r and 0 <= r < den, for a >= 0, num >= 0,
\* den > 0, computed bit by bit so that nothing exceeds 2 * den + num.
RECURSIVE DivMod(_, _, _)
DivMod(a, num, den) ==
    IF a = 0 THEN <<0, 0>>
    ELSE LET p == DivMod(a \div 2, num, den)
             t == 2 * p[2] + (a % 2) * num
         IN  <<2 * p[1] + t \div den, t % den>>

\* (a * num / den) rounded to an integer, ties away from zero: the quantize
\* of an exact Decimal product or quotient (num >= 0, den > 0).
QuantizeRatio(a, num, den) ==
    LET p == DivMod(Abs(a), num, den)
        m == p[1] + (IF 2 * p[2] >= den THEN 1 ELSE 0)
    IN  IF a >= 0 THEN m ELSE -m

\* 10 ** n.
RECURSIVE Pow(_, _)
Pow(b, n) == IF n = 0 THEN 1 ELSE b * Pow(b, n - 1)

----------------------------------------------------------------------------
(* src/models/investor.py *)

NiitThreshold(filing_status) ==
    CASE filing_status = "single" -> 200000
      [] filing_status = "married_filing_jointly" -> 250000
      [] filing_status = "married_filing_separately" -> 125000
      [] filing_status = "head_of_household" -> 200000

combined_rate(inv) == inv.marginal_federal_rate + inv.marginal_state_rate

niit_applies(inv) == inv.agi > NiitThreshold(inv.filing_status)

niit_rate(inv) == IF niit_applies(inv) THEN 38 ELSE 0

qualifies_for_25k_exception(inv) ==
    IF inv.is_re_professional THEN FALSE ELSE inv.agi < 150000

\* An off-by-one phase-out: one dollar of allowance lost per dollar of AGI.
rental_loss_allowance_full_rate(inv) ==
    IF ~qualifies_for_25k_exception(inv) THEN 0
    ELSE IF inv.agi <= 100000 THEN 2500000
    ELSE Max(0, 2500000 - (inv.agi - 100000) * 100)

\* reduction = (agi - 100000) / 2 dollars = (agi - 100000) * 50 cents.
rental_loss_allowance(inv) ==
    IF ~qualifies_for_25k_exception(inv) THEN 0
    ELSE IF inv.agi <= 100000 THEN 2500000
    ELSE Max(0, 2500000 - (inv.agi - 100000) * 50)

----------------------------------------------------------------------------
(* src/engine/tax.py *)

PassiveActivityEntry(year, rental, opi, deductible, suspended, cumulative, benefit) ==
    [year |-> year,
     rental_income_or_loss |-> rental,
     other_passive_income |-> opi,
     deductible_amount |-> deductible,
     suspended_amount |-> suspended,
     cumulative_suspended |-> cumulative,
     tax_benefit |-> benefit]

\* The value of pa_entry before the call returns.
NoEntry == PassiveActivityEntry(0, 0, 0, 0, 0, 0, 0)

\* The income branch with the first, overwritten assignment of deductible
\* left in force: deductible = net_passive - usable_suspended.
PassiveIncomeYear_taxable_remainder(rental_income_or_loss, inv, prior, year) ==
    LET net_passive == rental_income_or_loss + inv.other_passive_income
        usable_suspended == Min(prior, net_passive)
    IN  PassiveActivityEntry(year, rental_income_or_loss,
            inv.other_passive_income, net_passive - usable_suspended, 0,
            prior - usable_suspended,
            QuantizeProduct(usable_suspended, combined_rate(inv)))

\* net_passive >= 0: suspended losses offset the passive income.
PassiveIncomeYear(rental_income_or_loss, inv, prior, year) ==
    LET net_passive == rental_income_or_loss + inv.other_passive_income
        usable_suspended == Min(prior, net_passive)
        deductible == -usable_suspended
        new_suspended == prior - usable_suspended
        tax_benefit == QuantizeProduct(usable_suspended, combined_rate(inv))
    IN  PassiveActivityEntry(year, rental_income_or_loss,
            inv.other_passive_income, deductible, 0, new_suspended,
            tax_benefit)

\* A professional's loss year that also books the loss as suspended.
ProfessionalLossYear_also_suspends(rental_income_or_loss, inv, prior, year) ==
    LET loss == Abs(rental_income_or_loss + inv.other_passive_income)
    IN  PassiveActivityEntry(year, rental_income_or_loss,
            inv.other_passive_income, -loss, 0, prior + loss,
            QuantizeProduct(loss, combined_rate(inv)))

\* Net passive loss of a real-estate professional: fully deductible.
ProfessionalLossYear(rental_income_or_loss, inv, prior, year) ==
    LET loss == Abs(rental_income_or_loss + inv.other_passive_income)
        tax_benefit == QuantizeProduct(loss, combined_rate(inv))
    IN  PassiveActivityEntry(year, rental_income_or_loss,
            inv.other_passive_income, -loss, 0, prior, tax_benefit)

\* The allowance branch with the tax benefit taken on the whole loss instead
\* of the deductible part.
AllowanceLossYear_benefit_on_loss(rental_income_or_loss, inv, prior, year) ==
    LET loss == Abs(rental_income_or_loss + inv.other_passive_income)
        deductible_loss == Min(loss, rental_loss_allowance(inv))
        suspended == loss - deductible_loss
    IN  PassiveActivityEntry(year, rental_income_or_loss,
            inv.other_passive_income, -deductible_loss, suspended,
            prior + suspended,
            QuantizeProduct(loss, combined_rate(inv)))

\* Net passive loss of anyone else: the $25K exception, the rest suspended.
AllowanceLossYear(rental_income_or_loss, inv, prior, year) ==
    LET loss == Abs(rental_income_or_loss + inv.other_passive_income)
        allowance == rental_loss_allowance(inv)
        deductible_loss == Min(loss, allowance)
        suspended == loss - deductible_loss
        tax_benefit == QuantizeProduct(deductible_loss, combined_rate(inv))
        new_suspended == prior + suspended
    IN  PassiveActivityEntry(year, rental_income_or_loss,
            inv.other_passive_income, -deductible_loss, suspended,
            new_suspended, tax_benefit)

\* A call that starts every year from an empty balance.
compute_passive_activity_forgets_prior(rental_income_or_loss, inv, prior, year) ==
    LET net_passive == rental_income_or_loss + inv.other_passive_income
    IN  IF net_passive >= 0
        THEN PassiveIncomeYear(rental_income_or_loss, inv, 0, year)
        ELSE IF inv.is_re_professional
        THEN ProfessionalLossYear(rental_income_or_loss, inv, 0, year)
        ELSE AllowanceLossYear(rental_income_or_loss, inv, 0, year)

compute_passive_activity(rental_income_or_loss, inv, prior, year) ==
    LET net_passive == rental_income_or_loss + inv.other_passive_income
    IN  IF net_passive >= 0
        THEN PassiveIncomeYear(rental_income_or_loss, inv, prior, year)
        ELSE IF inv.is_re_professional
        THEN ProfessionalLossYear(rental_income_or_loss, inv, prior, year)
        ELSE AllowanceLossYear(rental_income_or_loss, inv, prior, year)

----------------------------------------------------------------------------
(* src/models/assumptions.py, src/models/rehab.py *)

\* RehabBudget.total_cost: the model keeps the budget's total and its months.
rehab_total_cost(a) == a.rehab_budget.total_cost

reclassified_total(cs) == cs.five_year + cs.seven_year + cs.fifteen_year

residential_pct(cs) == RateScale - reclassified_total(cs)

loan_amount(a) == QuantizeProduct(a.purchase_price, a.ltv)

down_payment(a) == a.purchase_price - loan_amount(a)

total_initial_investment(a) ==
    down_payment(a) + a.closing_costs + a.loan_points + rehab_total_cost(a)

total_basis(a) == a.purchase_price + a.closing_costs

depreciable_basis(a) ==
    QuantizeProduct(total_basis(a), RateScale - a.land_value_pct)
        + rehab_total_cost(a)

\* The products above are exact decimals in the source.  The model's deals
\* are those for which they are whole cents, so that rounding them to the
\* cent changes nothing.
WholeCents(amount, rate) == ((amount % RateScale) * rate) % RateScale = 0

ExactDeal(a) ==
    /\ WholeCents(a.purchase_price, a.ltv)
    /\ WholeCents(total_basis(a), RateScale - a.land_value_pct)
    /\ WholeCents(depreciable_basis(a), a.cost_seg.five_year)
    /\ WholeCents(depreciable_basis(a), a.cost_seg.seven_year)
    /\ WholeCents(depreciable_basis(a), a.cost_seg.fifteen_year)
    /\ a.interest_rate % 3 = 0

----------------------------------------------------------------------------
(* src/engine/debt.py *)

\* The payments the formula M = P r (1+r)^n / ((1+r)^n - 1) yields in 28-digit
\* decimal arithmetic, for the loans of the model: <<principal, annual_rate,
\* term_years>> to cents.
PaymentTable ==
    (<<40000000, 60, 1>> :> 3442657) @@ (<<40000000, 60, 2>> :> 1772824)
    @@ (<<40000000, 60, 30>> :> 239820) @@ (<<40000000, 75, 1>> :> 3470297)
    @@ (<<40000000, 75, 2>> :> 1799984) @@ (<<40000000, 75, 30>> :> 279686)
    @@ (<<40000104, 60, 1>> :> 3442666) @@ (<<40000104, 60, 2>> :> 1772829)
    @@ (<<40000104, 60, 30>> :> 239821) @@ (<<40000104, 75, 1>> :> 3470306)
    @@ (<<40000104, 75, 2>> :> 1799988) @@ (<<40000104, 75, 30>> :> 279687)
    @@ (<<25000050, 60, 1>> :> 2151665) @@ (<<25000050, 60, 2>> :> 1108017)
    @@ (<<25000050, 60, 30>> :> 149888) @@ (<<25000050, 75, 1>> :> 2168940)
    @@ (<<25000050, 75, 2>> :> 1124992) @@ (<<25000050, 75, 30>> :> 174804)

monthly_payment(principal, annual_rate, term_years) ==
    IF principal <= 0 THEN 0
    ELSE IF annual_rate <= 0 THEN QuantizeRatio(principal, 1, term_years * 12)
    ELSE PaymentTable[<<principal, annual_rate, term_years>>]

\* (balance * r).quantize(...) with r = annual_rate / 12; annual_rate is in
\* thousandths and a multiple of 3, so that r is an exact decimal.
MonthlyInterest(balance, annual_rate) ==
    QuantizeRatio(balance, annual_rate \div 3, 4000)

AmortizationPayment(period, payment, principal, interest, balance) ==
    [period |-> period, payment |-> payment, principal |-> principal,
     interest |-> interest, balance |-> balance]

\* A payment whose principal part is never cut down to the balance.
PrincipalPaid_unclamped(pmt, interest, balance) == pmt - interest

\* principal_paid = pmt - interest, and "if principal_paid > balance:
\* principal_paid = balance".
PrincipalPaid(pmt, interest, balance) ==
    IF (pmt - interest) > balance THEN balance ELSE pmt - interest

\* The iterations period..last of "for period in range(1, n_periods + 1)".
RECURSIVE MonthLoop(_, _, _, _, _)
MonthLoop(balance, pmt, annual_rate, period, last) ==
    IF period > last THEN <<>>
    ELSE LET interest == MonthlyInterest(balance, annual_rate)
             clamp == (pmt - interest) > balance
             principal_paid == PrincipalPaid(pmt, interest, balance)
             actual_payment == IF clamp THEN interest + principal_paid ELSE pmt
             new_balance == balance - principal_paid
         IN  <<AmortizationPayment(period, actual_payment, principal_paid,
                                   interest, new_balance)>>
             \o MonthLoop(new_balance, pmt, annual_rate, period + 1, last)

\* The loop "for period in range(1, n_periods + 1)", from period on, taken
\* twelve iterations at a time.
RECURSIVE AmortizationLoop(_, _, _, _, _)
AmortizationLoop(balance, pmt, annual_rate, period, n_periods) ==
    IF period > n_periods THEN <<>>
    ELSE LET last == Min(period + 11, n_periods)
             months == MonthLoop(balance, pmt, annual_rate, period, last)
         IN  months \o AmortizationLoop(months[Len(months)].balance, pmt,
                                        annual_rate, last + 1, n_periods)

\* A schedule that stops at the end of the loan term.
PeriodCount_capped_at_term(term_years, hold_years) ==
    (IF hold_years = 0 THEN term_years ELSE Min(hold_years, term_years)) * 12

\* A hold of zero years taken as given instead of falling back on the term.
PeriodCount_zero_hold(term_years, hold_years) == hold_years * 12

\* n_periods = (hold_years or term_years) * 12.
PeriodCount(term_years, hold_years) ==
    (IF hold_years = 0 THEN term_years ELSE hold_years) * 12

\* The sum of field f over payments[lo..hi].
RECURSIVE SumRange(_, _, _, _)
SumRange(payments, f, lo, hi) ==
    IF lo > hi THEN 0
    ELSE IF lo = hi THEN payments[lo][f]
    ELSE LET mid == (lo + hi) \div 2
         IN  SumRange(payments, f, lo, mid) + SumRange(payments, f, mid + 1, hi)

SumField(payments, f) == SumRange(payments, f, 1, Len(payments))

\* The body of amortization_schedule once n_periods is known.
Schedule(principal, annual_rate, term_years, n_periods) ==
    LET pmt == monthly_payment(principal, annual_rate, term_years)
        payments == AmortizationLoop(principal, pmt, annual_rate, 1, n_periods)
    IN  [payments |-> payments,
         monthly_payment |-> pmt,
         total_interest |-> SumField(payments, "interest"),
         total_principal |-> SumField(payments, "principal")]

amortization_schedule(principal, annual_rate, term_years, hold_years) ==
    Schedule(principal, annual_rate, term_years, PeriodCount(term_years, hold_years))

\* amortization_schedule without hold_years: the parameter is None, and
\* "hold_years or term_years" is term_years.
amortization_schedule_full_term(principal, annual_rate, term_years) ==
    Schedule(principal, annual_rate, term_years, term_years * 12)

\* "if p.period % 12 == 0 or p.period == len(schedule.payments)".
ClosesYear(payments, j) ==
    payments[j].period % 12 = 0 \/ payments[j].period = Len(payments)

\* The yearly entries appended by the loop "for p in schedule.payments" from
\* index i on, where the sums of the year in progress are zero: the entry
\* closed by the first closing payment j >= i, then those after j.  Payments
\* after the last closing one add to sums that are never appended.
RECURSIVE YearlyDebtLoop(_, _)
YearlyDebtLoop(payments, i) ==
    LET closing == {j \in i..Len(payments) : ClosesYear(payments, j)}
    IN  IF closing = {} THEN <<>>
        ELSE LET j == CHOOSE c \in closing : \A d \in closing : c <= d
                 p == payments[j]
             IN  <<[year |-> (p.period - 1) \div 12 + 1,
                    principal |-> SumRange(payments, "principal", i, j),
                    interest |-> SumRange(payments, "interest", i, j),
                    debt_service |-> SumRange(payments, "payment", i, j),
                    ending_balance |-> p.balance]>>
                 \o YearlyDebtLoop(payments, j + 1)

yearly_debt_summary(schedule) == YearlyDebtLoop(schedule.payments, 1)

----------------------------------------------------------------------------
(* src/engine/cashflow.py *)

RECURSIVE Gcd(_, _)
Gcd(x, y) == IF y = 0 THEN x ELSE Gcd(y, x % y)

\* (1 + g) ** n for a rate g in thousandths, as an exact fraction <<num, den>>
\* in lowest terms.
GrowthFactor(g, n) ==
    LET d == Gcd(RateScale + g, RateScale)
    IN  <<Pow((RateScale + g) \div d, n), Pow(RateScale \div d, n)>>

\* (amount * (1 + g) ** n).quantize(TWO_PLACES, ROUND_HALF_UP).
Grown(amount, g, n) ==
    LET f == GrowthFactor(g, n) IN QuantizeRatio(amount, f[1], f[2])

\* A proration that also applies to the years after the rehab.
gross_rent_prorated_every_year(a, year) ==
    LET annual == a.monthly_rent * 12
        full_year == Grown(annual, a.annual_rent_growth, year - 1)
    IN  IF a.rehab_budget.rehab_months > 0
        THEN QuantizeRatio(full_year, 12 - Min(a.rehab_budget.rehab_months, 12), 12)
        ELSE full_year

gross_rent(a, year) ==
    LET annual == a.monthly_rent * 12
        full_year == Grown(annual, a.annual_rent_growth, year - 1)
    IN  IF year = 1 /\ a.rehab_budget.rehab_months > 0
        THEN LET rehab_months == Min(a.rehab_budget.rehab_months, 12)
                 rent_months == 12 - rehab_months
             IN  QuantizeRatio(full_year, rent_months, 12)
        ELSE full_year

\* An income that is rounded once: the rent net of vacancy, to the cent.
effective_gross_income_rounded_once(a, year) ==
    QuantizeProduct(gross_rent(a, year), RateScale - a.vacancy_rate) + a.other_income

effective_gross_income(a, year) ==
    LET gr == gross_rent(a, year)
        vacancy == QuantizeProduct(gr, a.vacancy_rate)
    IN  gr - vacancy + a.other_income

operating_expenses(a, year) ==
    LET gr == gross_rent(a, year)
        prop_tax == Grown(a.property_tax, a.annual_expense_growth, year - 1)
        insurance == Grown(a.insurance, a.annual_expense_growth, year - 1)
        maintenance == QuantizeProduct(gr, a.maintenance_pct)
        management == QuantizeProduct(gr, a.management_pct)
        capex == QuantizeProduct(gr, a.capex_reserve_pct)
        hoa == a.hoa * 12
    IN  [property_tax |-> prop_tax,
         insurance |-> insurance,
         maintenance |-> maintenance,
         management |-> management,
         capex_reserve |-> capex,
         hoa |-> hoa,
         total |-> prop_tax + insurance + maintenance + management + capex + hoa]

noi(a, year) == effective_gross_income(a, year) - operating_expenses(a, year).total

\* Ratios are kept in ten-thousandths: quantize(FOUR_PLACES, ROUND_HALF_UP).
FourPlaces == 10000

\* x / y to four places for y > 0 (the callers return 0 for y = 0).
QuantizeQuotient(x, y) ==
    IF y > 0 THEN QuantizeRatio(x, FourPlaces, y)
    ELSE -QuantizeRatio(x, FourPlaces, -y)

cap_rate(a, year) ==
    IF a.purchase_price = 0 THEN 0
    ELSE QuantizeQuotient(noi(a, year), a.purchase_price)

cash_on_cash(cash_flow, invested) ==
    IF invested = 0 THEN 0 ELSE QuantizeQuotient(cash_flow, invested)

\* x / y to four places for y > 0 as <<units, ten_thousandths>>, both with
\* the sign of x: a quotient too large to be kept in ten-thousandths.
QuantizeQuotientWide(x, y) ==
    LET w == Abs(x) \div y
        p == QuantizeRatio(Abs(x) % y, FourPlaces, y)
        s == IF x < 0 THEN -1 ELSE 1
    IN  IF p = FourPlaces THEN <<s * (w + 1), 0>> ELSE <<s * w, s * p>>

\* The debt service of a year after the payoff is a few cents, so the ratio
\* is kept as <<units, ten_thousandths>>.
dscr(noi_amount, annual_debt_service) ==
    IF annual_debt_service = 0 THEN <<0, 0>>
    ELSE QuantizeQuotientWide(noi_amount, annual_debt_service)

property_value(a, year) == Grown(a.purchase_price, a.annual_appreciation, year)

----------------------------------------------------------------------------
(* src/engine/depreciation.py, src/config.py *)

\* settings.bonus_depreciation_rate, in thousandths; 0 for any other year.
bonus_rate(placed_in_service_year) ==
    CASE placed_in_service_year = 2022 -> 1000
      [] placed_in_service_year = 2023 -> 800
      [] placed_in_service_year = 2024 -> 600
      [] placed_in_service_year = 2025 -> 1000
      [] placed_in_service_year = 2026 -> 1000
      [] placed_in_service_year = 2027 -> 800
      [] OTHER -> 0

\* data/macrs_tables.json, residential_27_5: percentages in thousandths of a
\* percent, by year and month placed in service (IRS Pub 946, Table A-6).
ResidentialFirstYear == <<3485, 3182, 2879, 2576, 2273, 1970, 1667, 1364, 1061, 758, 455, 152>>
ResidentialYear28 == <<1970, 2273, 2576, 2879, 3182, 3485, 3636, 3636, 3636, 3636, 3636, 3636>>
ResidentialYear29 == <<0, 0, 0, 0, 0, 0, 152, 455, 758, 1061, 1364, 1667>>

ResidentialTable(year, month) ==
    IF year = 1 THEN ResidentialFirstYear[month]
    ELSE IF year <= 9 THEN 3636
    ELSE IF year <= 27
         THEN (IF (year % 2 = 0) = (month <= 6) THEN 3637 ELSE 3636)
    ELSE IF year = 28 THEN ResidentialYear28[month]
    ELSE ResidentialYear29[month]

\* data/macrs_tables.json, macrs_N_year: percentages in hundredths of a percent.
MacrsTable(macrs_class) ==
    CASE macrs_class = "5" -> <<2000, 3200, 1920, 1152, 1152, 576>>
      [] macrs_class = "7" -> <<1429, 2449, 1749, 1249, 893, 892, 893, 446>>
      [] macrs_class = "15" -> <<500, 950, 855, 770, 693, 623, 590, 590, 591,
                                 590, 591, 590, 591, 590, 591, 295>>

residential_depreciation(basis, placed_in_service_month, year) ==
    IF year < 1 \/ year > 29 THEN 0
    ELSE QuantizeRatio(basis, ResidentialTable(year, placed_in_service_month),
                       100000)

\* A MACRS amount on the whole class basis, whatever the bonus has taken.
macrs_depreciation_of_full_basis(basis, keep, macrs_class, year) ==
    IF year < 1 \/ year > Len(MacrsTable(macrs_class)) THEN 0
    ELSE QuantizeRatio(basis, RateScale * MacrsTable(macrs_class)[year],
                       RateScale * FourPlaces)

\* (basis * keep / RateScale * pct).quantize(...): the share keep of a class
\* basis on the MACRS vector of its class.
macrs_depreciation_of_share(basis, keep, macrs_class, year) ==
    IF year < 1 \/ year > Len(MacrsTable(macrs_class)) THEN 0
    ELSE QuantizeRatio(basis, keep * MacrsTable(macrs_class)[year],
                       RateScale * FourPlaces)

macrs_depreciation(basis, macrs_class, year) ==
    macrs_depreciation_of_share(basis, RateScale, macrs_class, year)

compute_yearly_depreciation(a, year) ==
    LET dep_basis == depreciable_basis(a)
        rate == bonus_rate(a.placed_in_service_year)
        five_year_basis == QuantizeProduct(dep_basis, a.cost_seg.five_year)
        seven_year_basis == QuantizeProduct(dep_basis, a.cost_seg.seven_year)
        fifteen_year_basis == QuantizeProduct(dep_basis, a.cost_seg.fifteen_year)
        \* dep_basis * residential_pct, exact: what the classes leave
        residential_basis ==
            dep_basis - five_year_basis - seven_year_basis - fifteen_year_basis
        first == year = 1 /\ rate > 0
        bonus_five == QuantizeProduct(five_year_basis, rate)
        bonus_seven == QuantizeProduct(seven_year_basis, rate)
        bonus_fifteen == QuantizeProduct(fifteen_year_basis, rate)
        bonus == IF first THEN bonus_five + bonus_seven + bonus_fifteen ELSE 0
        five_yr_dep ==
            IF first THEN macrs_depreciation(five_year_basis - bonus_five, "5", year)
            ELSE macrs_depreciation_of_share(five_year_basis, RateScale - rate, "5", year)
        seven_yr_dep ==
            IF first THEN macrs_depreciation(seven_year_basis - bonus_seven, "7", year)
            ELSE macrs_depreciation_of_share(seven_year_basis, RateScale - rate, "7", year)
        fifteen_yr_dep ==
            IF first THEN macrs_depreciation(fifteen_year_basis - bonus_fifteen, "15", year)
            ELSE macrs_depreciation_of_share(fifteen_year_basis, RateScale - rate, "15", year)
        res_dep == residential_depreciation(residential_basis,
                                            a.placed_in_service_month, year)
    IN  [year |-> year,
         residential |-> res_dep,
         five_year |-> five_yr_dep,
         seven_year |-> seven_yr_dep,
         fifteen_year |-> fifteen_yr_dep,
         bonus |-> bonus,
         total |-> res_dep + five_yr_dep + seven_yr_dep + fifteen_yr_dep + bonus]

----------------------------------------------------------------------------
(* src/engine/disposition.py *)

RECAPTURE_RATE == 250
LTCG_RATE == 200

DispositionResult(sale_price, selling_costs, net_sale_proceeds, loan_payoff, gross_equity_proceeds, adjusted_basis, total_gain, recapture, capital_gain, recapture_tax, capital_gains_tax, niit_on_gain, state_tax_on_gain, released, release_benefit, total_tax_on_sale, after_tax_sale_proceeds) ==
    [sale_price |-> sale_price,
     selling_costs |-> selling_costs,
     net_sale_proceeds |-> net_sale_proceeds,
     loan_payoff |-> loan_payoff,
     gross_equity_proceeds |-> gross_equity_proceeds,
     adjusted_basis |-> adjusted_basis,
     total_gain |-> total_gain,
     depreciation_recapture |-> recapture,
     capital_gain |-> capital_gain,
     recapture_tax |-> recapture_tax,
     capital_gains_tax |-> capital_gains_tax,
     niit_on_gain |-> niit_on_gain,
     state_tax_on_gain |-> state_tax_on_gain,
     suspended_losses_released |-> released,
     tax_benefit_from_release |-> release_benefit,
     total_tax_on_sale |-> total_tax_on_sale,
     after_tax_sale_proceeds |-> after_tax_sale_proceeds,
     returned |-> TRUE]

\* The value of disp_result before the call returns.
NoDisposition ==
    [DispositionResult(0, 0, 0, 0, 0, 0, 0, 0, 0, 0, 0, 0, 0, 0, 0, 0, 0)
        EXCEPT !.returned = FALSE]

\* A loss branch that returns before releasing the suspended losses.
DispositionOnLoss_no_release(a, inv, sale_price, loan_balance, total_depreciation_taken, cumulative_suspended_losses) ==
    LET selling_costs == QuantizeProduct(sale_price, a.selling_costs_pct)
        net_sale_proceeds == sale_price - selling_costs
        gross_equity_proceeds == net_sale_proceeds - loan_balance
        adjusted_basis == total_basis(a) - total_depreciation_taken
        total_gain == net_sale_proceeds - adjusted_basis
    IN  DispositionResult(sale_price, selling_costs, net_sale_proceeds,
            loan_balance, gross_equity_proceeds, adjusted_basis, total_gain,
            0, 0, 0, 0, 0, 0, 0, 0, 0, gross_equity_proceeds)

\* total_gain <= 0: no tax on the sale, the suspended losses still release.
\* The fields the constructor call leaves out keep their default, 0.
DispositionOnLoss(a, inv, sale_price, loan_balance, total_depreciation_taken, cumulative_suspended_losses) ==
    LET selling_costs == QuantizeProduct(sale_price, a.selling_costs_pct)
        net_sale_proceeds == sale_price - selling_costs
        gross_equity_proceeds == net_sale_proceeds - loan_balance
        adjusted_basis == total_basis(a) - total_depreciation_taken
        total_gain == net_sale_proceeds - adjusted_basis
        tax_benefit_from_release ==
            QuantizeProduct(cumulative_suspended_losses, combined_rate(inv))
    IN  DispositionResult(sale_price, selling_costs, net_sale_proceeds,
            loan_balance, gross_equity_proceeds, adjusted_basis, total_gain,
            0, 0, 0, 0, 0, 0,
            cumulative_suspended_losses, tax_benefit_from_release,
            -tax_benefit_from_release,
            gross_equity_proceeds + tax_benefit_from_release)

\* Recapture of all depreciation taken, whatever the gain.
depreciation_recapture_uncapped(total_depreciation_taken, total_gain) ==
    total_depreciation_taken

\* IRC 1250: depreciation recapture.
depreciation_recapture(total_depreciation_taken, total_gain) ==
    Min(total_depreciation_taken, total_gain)

\* A gain offset that saves at the ordinary combined rate.
benefit_from_gain_offset_at_ordinary_rate(gain_offset, recapture, inv) ==
    QuantizeProduct(gain_offset, combined_rate(inv))

\* Lines 105-110: the gain offset saves tax at the rates of the gain it
\* offsets; the four products are summed before the one quantize.
benefit_from_gain_offset(gain_offset, recapture, inv) ==
    LET in_recapture == Min(gain_offset, recapture)
        in_capital_gain == Max(0, gain_offset - recapture)
    IN  QuantizeParts(
            Whole(in_recapture, RECAPTURE_RATE)
              + Whole(in_capital_gain, LTCG_RATE)
              + Whole(gain_offset, niit_rate(inv))
              + Whole(gain_offset, inv.marginal_state_rate),
            Frac(in_recapture, RECAPTURE_RATE)
              + Frac(in_capital_gain, LTCG_RATE)
              + Frac(gain_offset, niit_rate(inv))
              + Frac(gain_offset, inv.marginal_state_rate))

\* total_gain > 0.
DispositionOnGain(a, inv, sale_price, loan_balance, total_depreciation_taken, cumulative_suspended_losses) ==
    LET selling_costs == QuantizeProduct(sale_price, a.selling_costs_pct)
        net_sale_proceeds == sale_price - selling_costs
        gross_equity_proceeds == net_sale_proceeds - loan_balance
        adjusted_basis == total_basis(a) - total_depreciation_taken
        total_gain == net_sale_proceeds - adjusted_basis
        recapture == depreciation_recapture(total_depreciation_taken, total_gain)
        capital_gain == total_gain - recapture
        recapture_tax == QuantizeProduct(recapture, RECAPTURE_RATE)
        capital_gains_tax == QuantizeProduct(capital_gain, LTCG_RATE)
        niit == QuantizeProduct(total_gain, niit_rate(inv))
        state_tax == QuantizeProduct(total_gain, inv.marginal_state_rate)
        suspended_losses_released == cumulative_suspended_losses
        gain_offset == Min(suspended_losses_released, total_gain)
        remaining_suspended == suspended_losses_released - gain_offset
        benefit_from_remaining ==
            QuantizeProduct(remaining_suspended, combined_rate(inv))
        tax_benefit_from_release ==
            benefit_from_gain_offset(gain_offset, recapture, inv)
                + benefit_from_remaining
        total_tax == recapture_tax + capital_gains_tax + niit + state_tax
                        - tax_benefit_from_release
        after_tax_proceeds == gross_equity_proceeds - total_tax
    IN  DispositionResult(sale_price, selling_costs, net_sale_proceeds,
            loan_balance, gross_equity_proceeds, adjusted_basis, total_gain,
            recapture, capital_gain, recapture_tax, capital_gains_tax,
            niit, state_tax, suspended_losses_released,
            tax_benefit_from_release, total_tax, after_tax_proceeds)

compute_disposition(a, inv, sale_price, loan_balance, total_depreciation_taken, cumulative_suspended_losses) ==
    LET selling_costs == QuantizeProduct(sale_price, a.selling_costs_pct)
        net_sale_proceeds == sale_price - selling_costs
        adjusted_basis == total_basis(a) - total_depreciation_taken
        total_gain == net_sale_proceeds - adjusted_basis
    IN  IF total_gain <= 0
        THEN DispositionOnLoss(a, inv, sale_price, loan_balance,
                 total_depreciation_taken, cumulative_suspended_losses)
        ELSE DispositionOnGain(a, inv, sale_price, loan_balance,
                 total_depreciation_taken, cumulative_suspended_losses)

----------------------------------------------------------------------------
(* Inputs *)

FilingStatuses == {"single", "married_filing_jointly"}

\* AGI in dollars: below, at and inside the phase-out band, at its end, above.
AgiValues == {90000, 100000, 100001, 120000, 125000, 149999, 150000, 400000}

\* (marginal_federal_rate, marginal_state_rate) in thousandths.
RatePairs == {<<240, 60>>, <<370, 133>>, <<220, 0>>}

Investors ==
    {[filing_status |-> f,
      agi |-> a,
      marginal_federal_rate |-> p[1],
      marginal_state_rate |-> p[2],
      other_passive_income |-> o,
      is_re_professional |-> b] :
        f \in FilingStatuses, a \in AgiValues, p \in RatePairs,
        o \in {0, 400000}, b \in BOOLEAN}

\* Profiles whose allowance is read: only agi and is_re_professional matter.
AllowanceInvestors ==
    {inv \in Investors :
        /\ inv.filing_status = "married_filing_jointly"
        /\ inv.marginal_federal_rate = 240
        /\ inv.other_passive_income = 0}

\* Net rental income (positive) or loss (negative) of one year, in cents.
RentalResults == {-3000000, -2000000, -1000005, -400000, -1, 0, 1500000, 700033}

\* Suspended balances carried into a single call.
PriorBalances == {0, 1000005, 2000001}

\* Longest list handed to build_passive_activity_ledger.
MaxLedgerYears == 3

\* Yearly results the ledger is built from.
LedgerResults == {-3000000, -1000001, 600000, 1500000}

\* Number of rental_loss_allowance reads kept for comparison.
MaxReads == 2

\* The $500K fixture of tests/conftest.py: rates in thousandths, money in
\* cents; the interest rate is 6% for 7%, so that a twelfth of it is exact.
CanonicalDeal ==
    [purchase_price |-> 50000000,
     closing_costs |-> 500000,
     land_value_pct |-> 200,
     ltv |-> 800,
     interest_rate |-> 60,
     loan_term_years |-> 30,
     loan_points |-> 0,
     monthly_rent |-> 280000,
     annual_rent_growth |-> 30,
     vacancy_rate |-> 50,
     other_income |-> 0,
     property_tax |-> 600000,
     insurance |-> 150000,
     maintenance_pct |-> 50,
     management_pct |-> 80,
     capex_reserve_pct |-> 50,
     hoa |-> 0,
     annual_appreciation |-> 30,
     hold_years |-> 3,
     selling_costs_pct |-> 60,
     cost_seg |-> [five_year |-> 0, seven_year |-> 0, fifteen_year |-> 0],
     placed_in_service_year |-> 2025,
     placed_in_service_month |-> 1,
     annual_expense_growth |-> 20,
     rehab_budget |-> [rehab_months |-> 0, total_cost |-> 0]]

\* Longest hold of a pro forma run.
MaxHoldYears == 3

\* Longest hold passed to amortization_schedule.
MaxScheduleHold == 3

\* Loans amortization_schedule is called on: no loan, and loans whose payment
\* rounds down and up.
SchedulePrincipals == {0, 25000050, 40000000, 40000104}
ScheduleRates == {0, 60, 75}
ScheduleTerms == {1, 2, 30}

\* hold_years: int | None as a sequence, <<>> for None and <<h>> for h.
ScheduleHolds == {<<>>} \cup {<<h>> : h \in 0..MaxScheduleHold}

\* (ltv, interest_rate): all cash, a 6% loan, an interest-free loan.
Financings == {<<0, 60>>, <<800, 60>>, <<800, 0>>}

\* (cost_seg.five_year, placed_in_service_year): no study, a study with 100%
\* bonus, a study with 80% bonus.
CostSegStudies == {<<0, 2025>>, <<200, 2025>>, <<200, 2023>>}

\* (rehab_months, total_cost): turnkey, a six-month rehab, a rehab longer
\* than the first year.
RehabBudgets == {<<0, 0>>, <<6, 3000000>>, <<14, 3000000>>}

\* Deals run_proforma is run on: terms shorter and longer than the hold,
\* rising and falling prices.
ProformaDeals ==
    {a \in {[CanonicalDeal EXCEPT
                !.ltv = f[1],
                !.interest_rate = f[2],
                !.loan_term_years = t,
                !.hold_years = h,
                !.annual_appreciation = g,
                !.cost_seg.five_year = c[1],
                !.placed_in_service_year = c[2],
                !.rehab_budget = [rehab_months |-> r[1], total_cost |-> r[2]]] :
              f \in Financings, t \in {1, 30}, h \in 0..MaxHoldYears,
              g \in {30, -50}, c \in CostSegStudies, r \in RehabBudgets} :
        ExactDeal(a) /\ (a.hold_years > 0 \/ a.loan_term_years = 1)}

\* Investors of the runs: under the allowance, over it, with other passive
\* income, and a real-estate professional.
ProformaInvestors ==
    {inv \in Investors :
        /\ inv.filing_status = "married_filing_jointly"
        /\ inv.marginal_federal_rate = 370
        /\ \/ inv.agi = 90000 /\ inv.other_passive_income = 0 /\ ~inv.is_re_professional
           \/ inv.agi = 400000 /\ ~inv.is_re_professional
           \/ inv.agi = 400000 /\ inv.other_passive_income = 0 /\ inv.is_re_professional}

\* Deals a sale is computed for: with and without selling costs.
DispositionDeals ==
    {[CanonicalDeal EXCEPT !.selling_costs_pct = c] : c \in {0, 60}}

\* Sellers: below and above the NIIT threshold, with and without state tax.
DispositionInvestors ==
    {inv \in Investors :
        /\ inv.agi \in {120000, 400000}
        /\ inv.other_passive_income = 0
        /\ ~inv.is_re_professional
        /\ inv.marginal_federal_rate \in {370, 220}}

\* Sale prices: a loss, a gain of exactly 0 (no selling costs, 90 000 taken),
\* a gain below and above the depreciation taken, and odd-cent prices.
SalePrices == {40000000, 41500000, 52000000, 61500000, 61500002, 61500033}

LoanBalances == {0, 37500000}

DepreciationTotals == {0, 2000000, 9000000}

\* Suspended balances at sale: none, less than the gain, more than the gain.
SuspendedTotals == {0, 5000000, 5000005, 30000000}

SeqsUpTo(S, n) == UNION {[1..k -> S] : k \in 0..n}

----------------------------------------------------------------------------
(* One call of compute_passive_activity *)

PassiveIdle ==
    /\ pa_args = [rental |-> 0, prior |-> 0, year |-> 0]
    /\ pa_entry = NoEntry

LedgerIdle ==
    /\ yearly_rental = <<>>
    /\ ledger = <<>>
    /\ ledger_prior = 0
    /\ ledger_pc = "idle"

ReadsIdle == allowance_reads = <<>>

DispositionIdle ==
    /\ disp_args = [sale_price |-> 0, loan_balance |-> 0,
                    total_depreciation_taken |-> 0,
                    cumulative_suspended_losses |-> 0]
    /\ disp_result = NoDisposition

NoAnalysis ==
    [total_initial_investment |-> 0, rehab_total_cost |-> 0, rehab_months |-> 0,
     equity_multiple |-> 0, average_cash_on_cash |-> 0, total_profit |-> 0,
     total_depreciation_taken |-> 0, total_tax_benefit_operations |-> 0,
     total_suspended_losses |-> 0, net_tax_impact |-> 0]

ProformaIdle ==
    /\ pf_pc = "idle"
    /\ pf_year = 0
    /\ yearly_debt = <<>>
    /\ projections = <<>>
    /\ passive_ledger = <<>>
    /\ prior_suspended = 0
    /\ total_dep = 0
    /\ total_tax_benefit = 0
    /\ before_tax_cfs = <<>>
    /\ after_tax_cfs = <<>>
    /\ disposition = NoDisposition
    /\ analysis = NoAnalysis
    /\ pa_calls = <<>>

NoSchedule ==
    [payments |-> <<>>, monthly_payment |-> 0, total_interest |-> 0,
     total_principal |-> 0, returned |-> FALSE]

ScheduleIdle ==
    /\ sched_args = [principal |-> 0, annual_rate |-> 0, term_years |-> 0,
                     hold_years |-> <<>>]
    /\ sched_result = NoSchedule

ConstructionIdle ==
    /\ ctor_args = <<>>
    /\ ctor_pc = "idle"

BuilderIdle ==
    /\ build_args = <<>>
    /\ build_pc = "idle"
    /\ build_kwargs = <<>>
    /\ build_details = <<>>

\* The year datetime.date.today() falls in when the model starts.
CurrentYear == 2026

EarlierCallsIdle == ScheduleIdle /\ ConstructionIdle /\ BuilderIdle

\* No estimate_maintenance_pct call is modelled; the date is the first day
\* of the model.
NoMaintenanceCall == [year_built |-> 0, condition_grade |-> "none",
                      climate_zone |-> "none", renter_pct |-> <<>>]

MaintenanceIdle ==
    /\ today_year = CurrentYear
    /\ maint_args = NoMaintenanceCall
    /\ maint_results = <<>>

\* No estimate_rent call is modelled.
RentIdle ==
    /\ rent_clock = 0
    /\ rent_cache = <<>>
    /\ api_usage = <<>>
    /\ rent_calls = <<>>
    /\ api_requests = 0
    /\ rentcast_limit = 0

\* No estimate_insurance_composite call is modelled.
NoInsuranceCall ==
    [market_value |-> 0, year_built |-> 0, property_type |-> "", flood_zone |-> <<>>,
     seismic_pga |-> <<>>, wildfire_risk |-> <<>>, hurricane_zone |-> 0,
     hail_frequency |-> "", crime_rate |-> <<>>]

InsuranceIdle == ins_args = NoInsuranceCall /\ ins_result = <<>>

IncomeIdle == egi_year = 0 /\ egi_result = <<>>

DepreciationIdle == dep_years = <<>>

PureIdle == InsuranceIdle /\ IncomeIdle /\ DepreciationIdle

DataIdle == MaintenanceIdle /\ RentIdle /\ PureIdle

OtherCallsIdle == EarlierCallsIdle /\ DataIdle

InitPassive ==
    /\ investor \in Investors
    /\ assumptions = CanonicalDeal
    /\ pa_args \in [rental : RentalResults, prior : PriorBalances, year : {1}]
    /\ pa_entry = NoEntry
    /\ LedgerIdle
    /\ ReadsIdle
    /\ DispositionIdle
    /\ ProformaIdle
    /\ OtherCallsIdle

ComputePassiveActivity ==
    /\ pa_entry = NoEntry
    /\ pa_entry' = compute_passive_activity(pa_args.rental, investor,
                                            pa_args.prior, pa_args.year)
    /\ UNCHANGED <<investor, assumptions, pa_args, ledgerVars, readsVars, dispVars,
                   proformaVars,
                   otherCallVars>>

NextPassive == ComputePassiveActivity

SpecPassive == InitPassive /\ [][NextPassive]_vars

----------------------------------------------------------------------------
(* build_passive_activity_ledger *)

InitLedger ==
    /\ investor \in Investors
    /\ assumptions = CanonicalDeal
    /\ yearly_rental \in SeqsUpTo(LedgerResults, MaxLedgerYears)
    /\ ledger = <<>>
    /\ ledger_prior = 0
    /\ ledger_pc = "loop"
    /\ PassiveIdle
    /\ ReadsIdle
    /\ DispositionIdle
    /\ ProformaIdle
    /\ OtherCallsIdle

\* A loop body that forgets to carry the balance forward.
LedgerStepNoCarry ==
    /\ ledger_pc = "loop"
    /\ Len(ledger) < Len(yearly_rental)
    /\ LET i == Len(ledger)
           entry == compute_passive_activity(yearly_rental[i + 1], investor,
                                             ledger_prior, i + 1)
       IN  /\ ledger' = Append(ledger, entry)
           /\ ledger_prior' = ledger_prior
    /\ UNCHANGED <<investor, assumptions, passiveVars, yearly_rental, ledger_pc,
                   readsVars, dispVars, proformaVars,
                   otherCallVars>>

\* One iteration of "for i, income_or_loss in enumerate(...)".
LedgerStep ==
    /\ ledger_pc = "loop"
    /\ Len(ledger) < Len(yearly_rental)
    /\ LET i == Len(ledger)
           entry == compute_passive_activity(yearly_rental[i + 1], investor,
                                             ledger_prior, i + 1)
       IN  /\ ledger' = Append(ledger, entry)
           /\ ledger_prior' = entry.cumulative_suspended
    /\ UNCHANGED <<investor, assumptions, passiveVars, yearly_rental, ledger_pc,
                   readsVars, dispVars, proformaVars,
                   otherCallVars>>

LedgerReturn ==
    /\ ledger_pc = "loop"
    /\ Len(ledger) = Len(yearly_rental)
    /\ ledger_pc' = "returned"
    /\ UNCHANGED <<investor, assumptions, passiveVars, yearly_rental, ledger,
                   ledger_prior, readsVars, dispVars, proformaVars,
                   otherCallVars>>

NextLedger == LedgerStep \/ LedgerReturn

SpecLedger == InitLedger /\ [][NextLedger]_vars

----------------------------------------------------------------------------
(* Reads of InvestorTaxProfile.rental_loss_allowance *)

InitAllowance ==
    /\ investor \in AllowanceInvestors
    /\ assumptions = CanonicalDeal
    /\ allowance_reads = <<>>
    /\ PassiveIdle
    /\ LedgerIdle
    /\ DispositionIdle
    /\ ProformaIdle
    /\ OtherCallsIdle

\* The property is read for the current profile; the next profile follows.
ReadAllowance ==
    /\ Len(allowance_reads) < MaxReads
    /\ allowance_reads' = Append(allowance_reads,
           [agi |-> investor.agi,
            is_re_professional |-> investor.is_re_professional,
            allowance |-> rental_loss_allowance(investor)])
    /\ investor' \in AllowanceInvestors
    /\ UNCHANGED <<assumptions, passiveVars, ledgerVars, dispVars, proformaVars,
                   otherCallVars>>

NextAllowance == ReadAllowance

SpecAllowance == InitAllowance /\ [][NextAllowance]_vars

----------------------------------------------------------------------------
(* One call of compute_disposition *)

InitDisposition ==
    /\ investor \in DispositionInvestors
    /\ assumptions \in DispositionDeals
    /\ disp_args \in [sale_price : SalePrices,
                      loan_balance : LoanBalances,
                      total_depreciation_taken : DepreciationTotals,
                      cumulative_suspended_losses : SuspendedTotals]
    /\ disp_result = NoDisposition
    /\ PassiveIdle
    /\ LedgerIdle
    /\ ReadsIdle
    /\ ProformaIdle
    /\ OtherCallsIdle

ComputeDisposition ==
    /\ disp_result = NoDisposition
    /\ disp_result' = compute_disposition(assumptions, investor,
           disp_args.sale_price, disp_args.loan_balance,
           disp_args.total_depreciation_taken,
           disp_args.cumulative_suspended_losses)
    /\ UNCHANGED <<investor, assumptions, disp_args, passiveVars, ledgerVars,
                   readsVars, proformaVars,
                   otherCallVars>>

NextDisposition == ComputeDisposition

SpecDisposition == InitDisposition /\ [][NextDisposition]_vars

----------------------------------------------------------------------------
(* src/engine/proforma.py: run_proforma *)

\* seq[i] of a Python list: i counts from 0, a negative i from the end.
InRange(seq, i) == -Len(seq) <= i /\ i < Len(seq)
PyIndex(seq, i) == IF i >= 0 THEN seq[i + 1] ELSE seq[Len(seq) + i + 1]

RECURSIVE SumOver(_, _)
SumOver(seq, f) == IF seq = <<>> THEN 0 ELSE Head(seq)[f] + SumOver(Tail(seq), f)

InitProforma ==
    /\ investor \in ProformaInvestors
    /\ assumptions \in ProformaDeals
    /\ pf_pc = "start"
    /\ pf_year = 0
    /\ yearly_debt = <<>>
    /\ projections = <<>>
    /\ passive_ledger = <<>>
    /\ prior_suspended = 0
    /\ total_dep = 0
    /\ total_tax_benefit = 0
    /\ before_tax_cfs = <<>>
    /\ after_tax_cfs = <<>>
    /\ disposition = NoDisposition
    /\ analysis = NoAnalysis
    /\ pa_calls = <<>>
    /\ PassiveIdle
    /\ LedgerIdle
    /\ ReadsIdle
    /\ DispositionIdle
    /\ OtherCallsIdle

\* Lines 45-62: the amortization schedule, its yearly summary, the locals.
ProformaStart ==
    /\ pf_pc = "start"
    /\ yearly_debt' = yearly_debt_summary(
           amortization_schedule(loan_amount(assumptions),
               assumptions.interest_rate, assumptions.loan_term_years,
               assumptions.hold_years))
    /\ projections' = <<>>
    /\ passive_ledger' = <<>>
    /\ prior_suspended' = 0
    /\ total_dep' = 0
    /\ total_tax_benefit' = 0
    /\ before_tax_cfs' = <<-total_initial_investment(assumptions)>>
    /\ after_tax_cfs' = <<-total_initial_investment(assumptions)>>
    /\ pf_year' = 1
    /\ pf_pc' = "loop"
    /\ UNCHANGED <<investor, assumptions, disposition, analysis, pa_calls,
                   passiveVars, ledgerVars, readsVars, dispVars,
                   otherCallVars>>

taxable_rental_income(noi_amount, interest_paid, depreciation) ==
    noi_amount - interest_paid - depreciation

\* A loop that hands every year the balance it started with.
CarriedBalance_stale(pa_entry_of_year, prior) == prior

\* Line 99: prior_suspended = pa_entry.cumulative_suspended.
CarriedBalance(pa_entry_of_year, prior) == pa_entry_of_year.cumulative_suspended

\* After-tax cash flow with the benefit charged instead of credited.
cash_flow_after_tax_charged(cfbt, pa_entry_of_year) ==
    cfbt - pa_entry_of_year.tax_benefit

\* Line 103: cfat = cfbt + pa_entry.tax_benefit.
cash_flow_after_tax(cfbt, pa_entry_of_year) == cfbt + pa_entry_of_year.tax_benefit

\* Lines 64-156: one iteration of "for year in range(1, hold_years + 1)";
\* yearly_debt[year - 1] raises IndexError when the summary is too short.
ProformaYear ==
    /\ pf_pc = "loop"
    /\ pf_year <= assumptions.hold_years
    /\ IF ~InRange(yearly_debt, pf_year - 1)
       THEN /\ pf_pc' = "raised"
            /\ UNCHANGED <<pf_year, projections, passive_ledger,
                           prior_suspended, total_dep, total_tax_benefit,
                           before_tax_cfs, after_tax_cfs, pa_calls,
                   otherCallVars>>
       ELSE LET year == pf_year
                a == assumptions
                debt_year == PyIndex(yearly_debt, year - 1)
                annual_debt_service == debt_year.debt_service
                gr == gross_rent(a, year)
                egi == effective_gross_income(a, year)
                vacancy_loss == gr - egi + a.other_income
                expenses == operating_expenses(a, year)
                year_noi == noi(a, year)
                cfbt == year_noi - annual_debt_service
                dep == compute_yearly_depreciation(a, year)
                taxable == taxable_rental_income(year_noi, debt_year.interest,
                                                 dep.total)
                pa_entry_of_year == compute_passive_activity(taxable, investor,
                                        prior_suspended, year)
                cfat == cash_flow_after_tax(cfbt, pa_entry_of_year)
                prop_value == property_value(a, year)
                rent_months ==
                    IF year = 1 /\ a.rehab_budget.rehab_months > 0
                    THEN 12 - Min(a.rehab_budget.rehab_months, 12)
                    ELSE 12
                proj ==
                    [year |-> year,
                     gross_rent |-> gr,
                     vacancy_loss |-> vacancy_loss,
                     other_income |-> a.other_income,
                     effective_gross_income |-> egi,
                     property_tax |-> expenses.property_tax,
                     insurance |-> expenses.insurance,
                     maintenance |-> expenses.maintenance,
                     management |-> expenses.management,
                     capex_reserve |-> expenses.capex_reserve,
                     hoa |-> expenses.hoa,
                     total_expenses |-> expenses.total,
                     noi |-> year_noi,
                     debt_service |-> annual_debt_service,
                     cash_flow_before_tax |-> cfbt,
                     principal_paid |-> debt_year.principal,
                     interest_paid |-> debt_year.interest,
                     loan_balance |-> debt_year.ending_balance,
                     depreciation_27_5 |-> dep.residential,
                     depreciation_cost_seg |->
                         dep.five_year + dep.seven_year + dep.fifteen_year
                             + dep.bonus,
                     total_depreciation |-> dep.total,
                     taxable_income |-> taxable,
                     passive_loss |-> pa_entry_of_year.rental_income_or_loss,
                     suspended_loss |-> pa_entry_of_year.cumulative_suspended,
                     tax_benefit |-> pa_entry_of_year.tax_benefit,
                     cash_flow_after_tax |-> cfat,
                     property_value |-> prop_value,
                     equity |-> prop_value - debt_year.ending_balance,
                     cap_rate |-> cap_rate(a, year),
                     cash_on_cash |-> cash_on_cash(cfbt,
                                          total_initial_investment(a)),
                     dscr |-> dscr(year_noi, annual_debt_service),
                     rent_months |-> rent_months]
            IN  /\ total_dep' = total_dep + dep.total
                /\ pa_calls' = Append(pa_calls,
                       [year |-> year, prior_suspended |-> prior_suspended])
                /\ passive_ledger' = Append(passive_ledger, pa_entry_of_year)
                /\ prior_suspended' = CarriedBalance(pa_entry_of_year,
                                                     prior_suspended)
                /\ total_tax_benefit' =
                       total_tax_benefit + pa_entry_of_year.tax_benefit
                /\ projections' = Append(projections, proj)
                /\ before_tax_cfs' = Append(before_tax_cfs, cfbt)
                /\ after_tax_cfs' = Append(after_tax_cfs, cfat)
                /\ pf_year' = pf_year + 1
                /\ pf_pc' = "loop"
    /\ UNCHANGED <<investor, assumptions, yearly_debt, disposition, analysis,
                   passiveVars, ledgerVars, readsVars, dispVars,
                   otherCallVars>>

\* Lines 158-174: the sale at the end of the hold; yearly_debt[final_year - 1]
\* raises IndexError when the summary has no such entry.
ProformaDisposition ==
    /\ pf_pc = "loop"
    /\ pf_year > assumptions.hold_years
    /\ LET final_year == assumptions.hold_years
           sale_price == property_value(assumptions, final_year)
       IN  IF ~InRange(yearly_debt, final_year - 1)
           THEN /\ pf_pc' = "raised"
                /\ UNCHANGED <<disposition, before_tax_cfs, after_tax_cfs,
                   otherCallVars>>
           ELSE LET loan_balance ==
                        PyIndex(yearly_debt, final_year - 1).ending_balance
                    d == compute_disposition(assumptions, investor, sale_price,
                             loan_balance, total_dep, prior_suspended)
                    n == Len(before_tax_cfs)
                IN  /\ disposition' = d
                    /\ before_tax_cfs' = [before_tax_cfs EXCEPT
                           ![n] = @ + d.gross_equity_proceeds]
                    /\ after_tax_cfs' = [after_tax_cfs EXCEPT
                           ![n] = @ + d.after_tax_sale_proceeds]
                    /\ pf_pc' = "summary"
    /\ UNCHANGED <<investor, assumptions, pf_year, yearly_debt, projections,
                   passive_ledger, prior_suspended, total_dep,
                   total_tax_benefit, analysis, pa_calls,
                   passiveVars, ledgerVars, readsVars, dispVars,
                   otherCallVars>>

\* Lines 176-214: the summary metrics and the AnalysisResult.  The two IRRs
\* are roots found in binary floating point and are not part of the model.
ProformaReturn ==
    /\ pf_pc = "summary"
    /\ LET a == assumptions
           total_cfat == SumOver(projections, "cash_flow_after_tax")
           total_cash_returned == total_cfat + disposition.after_tax_sale_proceeds
           equity_multiple ==
               IF total_initial_investment(a) = 0 THEN 0
               ELSE QuantizeQuotient(total_cash_returned,
                                     total_initial_investment(a))
           avg_coc ==
               IF projections = <<>> THEN 0
               ELSE QuantizeRatio(SumOver(projections, "cash_on_cash"), 1,
                                  Len(projections))
           net_tax_impact ==
               total_tax_benefit + disposition.tax_benefit_from_release
                 - (disposition.recapture_tax + disposition.capital_gains_tax
                    + disposition.niit_on_gain + disposition.state_tax_on_gain)
       IN  analysis' =
               [total_initial_investment |-> total_initial_investment(a),
                rehab_total_cost |-> rehab_total_cost(a),
                rehab_months |-> a.rehab_budget.rehab_months,
                equity_multiple |-> equity_multiple,
                average_cash_on_cash |-> avg_coc,
                total_profit |->
                    total_cash_returned - total_initial_investment(a),
                total_depreciation_taken |-> total_dep,
                total_tax_benefit_operations |-> total_tax_benefit,
                total_suspended_losses |-> prior_suspended,
                net_tax_impact |-> net_tax_impact]
    /\ pf_pc' = "returned"
    /\ UNCHANGED <<investor, assumptions, pf_year, yearly_debt, projections,
                   passive_ledger, prior_suspended, total_dep,
                   total_tax_benefit, before_tax_cfs, after_tax_cfs,
                   disposition, pa_calls,
                   passiveVars, ledgerVars, readsVars, dispVars,
                   otherCallVars>>

NextProforma ==
    \/ ProformaStart
    \/ ProformaYear
    \/ ProformaDisposition
    \/ ProformaReturn

SpecProforma == InitProforma /\ [][NextProforma]_vars

----------------------------------------------------------------------------
(* One call of amortization_schedule *)

\* The parts of the engine that take no part in the call.
EngineIdle ==
    /\ investor = CHOOSE inv \in Investors : TRUE
    /\ assumptions = CanonicalDeal
    /\ PassiveIdle
    /\ LedgerIdle
    /\ ReadsIdle
    /\ DispositionIdle
    /\ ProformaIdle

engineVars == <<investor, assumptions, passiveVars, ledgerVars, readsVars, dispVars, proformaVars>>

InitSchedule ==
    /\ sched_args \in [principal : SchedulePrincipals, annual_rate : ScheduleRates,
                        term_years : ScheduleTerms, hold_years : ScheduleHolds]
    /\ sched_result = NoSchedule
    /\ EngineIdle
    /\ ConstructionIdle
    /\ BuilderIdle
    /\ DataIdle

ComputeSchedule ==
    /\ ~sched_result.returned
    /\ sched_result' =
           [returned |-> TRUE] @@
           (IF sched_args.hold_years = <<>>
            THEN amortization_schedule_full_term(sched_args.principal,
                     sched_args.annual_rate, sched_args.term_years)
            ELSE amortization_schedule(sched_args.principal,
                     sched_args.annual_rate, sched_args.term_years,
                     sched_args.hold_years[1]))
    /\ UNCHANGED <<engineVars, sched_args, constructionVars, builderVars, dataVars>>

NextSchedule == ComputeSchedule

SpecSchedule == InitSchedule /\ [][NextSchedule]_vars

----------------------------------------------------------------------------
(* src/models/assumptions.py: one construction of DealAssumptions *)

\* Keyword arguments of the construction: the canonical deal with cost
\* segregation shares, an interest rate, a month and a hold inside and
\* outside their meaningful ranges.
ConstructionArguments ==
    {[CanonicalDeal EXCEPT
         !.cost_seg = [five_year |-> c[1], seven_year |-> 0, fifteen_year |-> c[2]],
         !.interest_rate = r,
         !.placed_in_service_month = m,
         !.hold_years = h] :
     c \in {<<0, 0>>, <<200, 100>>, <<600, 500>>}, r \in {-10, 0, 60},
     m \in {0, 1, 12, 13}, h \in {-1, 0, 1, 3}}

InitConstruction ==
    /\ ctor_args \in ConstructionArguments
    /\ ctor_pc = "called"
    /\ EngineIdle
    /\ ScheduleIdle
    /\ BuilderIdle
    /\ DataIdle

\* The generated __init__ of the frozen dataclass: every field is set from
\* its argument; the class has no __post_init__ and raises nothing.
ConstructDealAssumptions ==
    /\ ctor_pc = "called"
    /\ assumptions' = ctor_args
    /\ ctor_pc' = "constructed"
    /\ UNCHANGED <<investor, passiveVars, ledgerVars, readsVars, dispVars,
                   proformaVars, ctor_args, scheduleVars, builderVars, dataVars>>

NextConstruction == ConstructDealAssumptions

SpecConstruction == InitConstruction /\ [][NextConstruction]_vars

----------------------------------------------------------------------------
(* src/engine/assumptions_builder.py and the estimators it calls           *)
(*                                                                         *)
(* Units of this part: money in cents; rates and percentages in basis      *)
(* points (Decimal("0.0775") is 775), the finest grain the builder rounds  *)
(* a rate to; loan points in hundredths of a point.  An optional value     *)
(* (T | None) is a sequence: <<>> for None, <<v>> for v.                   *)

\* "x is not None".
IsGiven(optional) == optional # <<>>

\* "x or fallback" for an optional number: None and 0 are both falsy.
NumberOr(optional, fallback) ==
    IF optional = <<>> THEN fallback
    ELSE IF optional[1] = 0 THEN fallback ELSE optional[1]

\* "x or fallback" for an optional string: None and "" are both falsy.
StringOr(optional, fallback) ==
    IF optional = <<>> \/ optional = <<"">> THEN fallback ELSE optional[1]

\* (a * num / den) rounded to an integer, ties to the even neighbour: a
\* quantize without a rounding argument, which is ROUND_HALF_EVEN (a >= 0).
QuantizeRatioHalfEven(a, num, den) ==
    LET p == DivMod(a, num, den)
        up == 2 * p[2] > den \/ (2 * p[2] = den /\ p[1] % 2 = 1)
    IN  p[1] + (IF up THEN 1 ELSE 0)

\* (amount * rate).quantize(Decimal("1")) for cents and basis points: whole
\* dollars, as cents.
QuantizeToDollars(amount, rate) == 100 * QuantizeRatioHalfEven(amount, rate, 1000000)

\* src/models/smart_assumptions.py: AssumptionDetail without data_points.
AssumptionDetail(value, source, confidence, justification) ==
    [value |-> value, source |-> source, confidence |-> confidence,
     justification |-> justification]

\* _detail: field_name is the key the detail is stored under.
_detail(value, source, confidence, justification) ==
    AssumptionDetail(value, source, confidence, justification)

\* _override_or: <<value, detail>>.  Decimal(str(v)) of a Decimal or an int
\* is the same number.
_override_or(override_value, estimate_value, estimate_source, estimate_confidence, estimate_justification) ==
    IF IsGiven(override_value)
    THEN <<override_value[1],
           _detail(override_value[1], "USER_OVERRIDE", "HIGH", "User override: {val}")>>
    ELSE <<estimate_value,
           _detail(estimate_value, estimate_source, estimate_confidence,
                   estimate_justification)>>

\* src/models/smart_assumptions.py: the fields of UserOverrides.
OverrideFields ==
    {"purchase_price", "ltv", "interest_rate", "loan_term_years", "loan_type",
     "monthly_rent", "annual_rent_growth", "vacancy_rate", "property_tax",
     "insurance", "maintenance_pct", "management_pct", "capex_reserve_pct",
     "hoa", "annual_appreciation", "land_value_pct", "annual_expense_growth",
     "hold_years", "selling_costs_pct", "closing_cost_pct"}

\* UserOverrides(): every field None.
UserOverrides == [f \in OverrideFields |-> <<>>]

\* MacroContext(): every field None (the two fields the builder reads).
MacroContext == [mortgage_rate_30y |-> <<>>, cpi_5yr_cagr |-> <<>>]

\* src/engine/loan_products.py
DEFAULT_MORTGAGE_RATE == 700
INVESTOR_PREMIUM == 75

_base_rate(macro) ==
    IF IsGiven(macro.mortgage_rate_30y) THEN macro.mortgage_rate_30y[1]
    ELSE DEFAULT_MORTGAGE_RATE

\* credit_score_tier is left at "excellent": credit_adj = 0.  The rate is a
\* sum of basis points, which quantize(Decimal("0.0001")) leaves as it is.
conventional_loan(macro) ==
    [loan_type |-> "conventional",
     interest_rate |-> _base_rate(macro) + INVESTOR_PREMIUM + 0,
     ltv |-> 8000, loan_term_years |-> 30, points |-> 0,
     rate_source |-> "FRED 30yr primary rate + investment property premium + credit"]

\* estimated_dscr in hundredths.
dscr_loan(macro, estimated_dscr) ==
    LET terms == IF estimated_dscr >= 125 THEN <<100, 8000, 100>>
                 ELSE IF estimated_dscr >= 100 THEN <<175, 7500, 150>>
                 ELSE <<250, 6500, 200>>
    IN  [loan_type |-> "dscr",
         interest_rate |-> _base_rate(macro) + INVESTOR_PREMIUM + terms[1],
         ltv |-> terms[2], loan_term_years |-> 30, points |-> terms[3],
         rate_source |-> "FRED 30yr primary rate + investment premium + DSCR spread"]

\* src/data: the state tables, for the state of the modelled properties and
\* for a state they do not list.
STATE_CLOSING_COST_PCT(state) == IF state = "OH" THEN 250 ELSE 250
get_hurricane_zone(state) == 0
get_hail_frequency(state) == "low"
get_crime_rate(state) == IF state = "OH" THEN 2275 ELSE 2000
get_climate_zone(state) == "mixed_humid"

\* src/data/closing_costs.py: <<amount, pct>>.
estimate_closing_costs(purchase_price, state) ==
    <<QuantizeToDollars(purchase_price, STATE_CLOSING_COST_PCT(state)),
      STATE_CLOSING_COST_PCT(state)>>

\* str.upper().replace("-", "").replace(" ", "") of the property types.
CompactUpper(property_type) ==
    IF property_type = "Multi-Family" THEN "MULTIFAMILY"
    ELSE IF property_type = "Condo" THEN "CONDO"
    ELSE IF property_type = "Townhouse" THEN "TOWNHOUSE"
    ELSE "SFR"

\* str.upper() of the property types.
Upper(property_type) ==
    IF property_type = "Multi-Family" THEN "MULTI-FAMILY"
    ELSE CompactUpper(property_type)

\* src/engine/insurance.py: the multipliers, in hundredths.
FLOOD_MULTIPLIERS(zone) ==
    IF zone \in {"V", "VE"} THEN 200
    ELSE IF zone \in {"A", "AE", "AH", "AO"} THEN 150
    ELSE IF zone = "A99" THEN 130
    ELSE IF zone \in {"X500", "B"} THEN 115
    ELSE 100

\* pga in hundredths of g.
_earthquake_multiplier(pga) ==
    IF pga = <<>> THEN 100
    ELSE IF pga[1] >= 40 THEN 140
    ELSE IF pga[1] >= 20 THEN 120
    ELSE 100

WILDFIRE_MULTIPLIERS(risk) ==
    IF risk = 5 THEN 135 ELSE IF risk = 4 THEN 120 ELSE IF risk = 3 THEN 110 ELSE 100

_hurricane_multiplier(zone) ==
    IF zone >= 3 THEN 130 ELSE IF zone >= 1 THEN 115 ELSE 100

HAIL_MULTIPLIERS(frequency) ==
    IF frequency = "high" THEN 115 ELSE IF frequency = "moderate" THEN 108 ELSE 100

_crime_multiplier(crime_rate) ==
    IF crime_rate = <<>> THEN 100
    ELSE IF crime_rate[1] > 3500 THEN 115
    ELSE IF crime_rate[1] > 2000 THEN 105
    ELSE 100

\* total_multiplier *= factor, with total_multiplier in hundred-thousandths
\* and factor in hundredths; the products of the modelled hazards have at
\* most five decimals.
TimesFactor(total_multiplier, factor) == (total_multiplier * factor) \div 100

\* estimate_insurance_composite: <<premium, detail>>.  market_value is a
\* whole number of dollars; premium = value * 0.80 * 0.0035 * total_multiplier,
\* quantized to whole dollars.
estimate_insurance_composite(market_value, year_built, property_type, flood_zone, seismic_pga, wildfire_risk, hurricane_zone, hail_frequency, crime_rate) ==
    LET flood_mult == FLOOD_MULTIPLIERS(StringOr(flood_zone, "X"))
        eq_mult == _earthquake_multiplier(seismic_pga)
        wf_mult == WILDFIRE_MULTIPLIERS(IF IsGiven(wildfire_risk) THEN wildfire_risk[1] ELSE 1)
        hurr_mult == _hurricane_multiplier(hurricane_zone)
        hail_mult == HAIL_MULTIPLIERS(hail_frequency)
        crime_mult == _crime_multiplier(crime_rate)
        age_mult == IF year_built # 0 /\ year_built < 1950 THEN 120
                    ELSE IF year_built # 0 /\ year_built < 1970 THEN 110
                    ELSE 100
        type_mult == IF CompactUpper(property_type) = "MULTIFAMILY" THEN 115
                     ELSE IF CompactUpper(property_type) = "CONDO" THEN 80
                     ELSE 100
        total_multiplier ==
            TimesFactor(TimesFactor(TimesFactor(TimesFactor(TimesFactor(
            TimesFactor(TimesFactor(TimesFactor(100000, flood_mult), eq_mult),
            wf_mult), hurr_mult), hail_mult), crime_mult), age_mult), type_mult)
        premium == 100 * QuantizeRatioHalfEven(market_value \div 100,
                                               28 * total_multiplier, 1000000000)
        has_hazard_data == IsGiven(flood_zone) \/ IsGiven(seismic_pga) \/ IsGiven(wildfire_risk)
        confidence == IF premium < 40000 THEN "LOW"
                      ELSE IF has_hazard_data THEN "MEDIUM" ELSE "LOW"
        source == IF has_hazard_data THEN "ESTIMATED" ELSE "DEFAULT"
    IN  <<premium,
          AssumptionDetail(premium, source, confidence,
                           "Base: 0.35% of replacement cost. Total: {premium}/yr")>>

\* src/engine/appreciation.py: premiums in basis points.
GRADE_PREMIUMS(grade) ==
    IF grade = "A" THEN 450 ELSE IF grade = "B" THEN 350 ELSE IF grade = "C" THEN 250
    ELSE IF grade = "D" THEN 150 ELSE 50

DEFAULT_CPI_CAGR == 300
WALKABILITY_PREMIUM == 50

\* estimate_appreciation: <<rate, detail>>.  The weighted sum is in
\* millionths, clamped to 0.005..0.06 and quantized to the thousandth.
estimate_appreciation(neighborhood_grade, cpi_5yr_cagr, walk_score) ==
    LET grade == IF IsGiven(neighborhood_grade) THEN neighborhood_grade[1] ELSE "C"
        cpi == IF IsGiven(cpi_5yr_cagr) THEN cpi_5yr_cagr[1] ELSE DEFAULT_CPI_CAGR
        walk_component == IF IsGiven(walk_score) /\ walk_score[1] >= 80
                          THEN WALKABILITY_PREMIUM ELSE 0
        weighted == GRADE_PREMIUMS(grade) * 50 + cpi * 30 + walk_component * 20
        clamped == Max(5000, Min(60000, weighted))
        result == 10 * QuantizeRatioHalfEven(clamped, 1, 1000)
        has_data == IsGiven(neighborhood_grade) \/ IsGiven(cpi_5yr_cagr)
    IN  <<result,
          AssumptionDetail(result,
                           IF has_data THEN "ESTIMATED" ELSE "DEFAULT",
                           IF has_data THEN "MEDIUM" ELSE "LOW",
                           "Appreciation: {result}/yr. Neighborhood grade; CPI 5yr CAGR; walkability")>>

\* src/engine/maintenance.py.  _age_base_pct, in hundredths, when
\* datetime.date.today() falls in the year today.
_age_base_pct_on(today, year_built) ==
    LET age == IF year_built # 0 THEN today - year_built ELSE 30
    IN  IF age <= 5 THEN 3 ELSE IF age <= 15 THEN 4 ELSE IF age <= 30 THEN 5
        ELSE IF age <= 50 THEN 7 ELSE IF age <= 75 THEN 8 ELSE 10

\* _age_base_pct in a call made in the year CurrentYear.
_age_base_pct(year_built) == _age_base_pct_on(CurrentYear, year_built)

\* Multipliers in hundredths.
CONDITION_MULTIPLIERS(condition_grade) ==
    IF condition_grade = "turnkey" THEN 85
    ELSE IF condition_grade = "light" THEN 95
    ELSE IF condition_grade = "heavy" THEN 110
    ELSE IF condition_grade = "full_gut" THEN 120
    ELSE 100

CLIMATE_MULTIPLIERS(climate_zone) ==
    IF climate_zone \in {"hot_humid", "very_cold"} THEN 115
    ELSE IF climate_zone = "hot_dry" THEN 105
    ELSE IF climate_zone = "mixed_dry" THEN 95
    ELSE IF climate_zone = "cold" THEN 110
    ELSE 100

\* estimate_maintenance_pct: <<pct, detail>>.  renter_pct is in basis
\* points; the product is in hundred-millionths, quantized to the hundredth
\* and then clamped to 0.03..0.15.
estimate_maintenance_pct_on(today, year_built, condition_grade, climate_zone, renter_pct) ==
    LET renter_mult == IF ~IsGiven(renter_pct) THEN 100
                       ELSE IF renter_pct[1] > 7000 THEN 110
                       ELSE IF renter_pct[1] > 5000 THEN 105
                       ELSE 100
        product == _age_base_pct_on(today, year_built) * CONDITION_MULTIPLIERS(condition_grade)
                   * CLIMATE_MULTIPLIERS(climate_zone) * renter_mult
        result == Max(300, Min(1500, 100 * QuantizeRatioHalfEven(product, 1, 1000000)))
    IN  <<result,
          AssumptionDetail(result, "ESTIMATED",
                           IF IsGiven(renter_pct) THEN "MEDIUM" ELSE "LOW",
                           "Maintenance: {result} of gross rent. Age base; Condition; Climate; Renter wear")>>

\* estimate_maintenance_pct in a call made in the year CurrentYear.
estimate_maintenance_pct(year_built, condition_grade, climate_zone, renter_pct) ==
    estimate_maintenance_pct_on(CurrentYear, year_built, condition_grade, climate_zone, renter_pct)

\* The arguments of a call c of build_smart_assumptions, with the "or"
\* fallbacks of lines 87-90.
Ov(c) == IF IsGiven(c.overrides) THEN c.overrides[1] ELSE UserOverrides
Macro(c) == IF IsGiven(c.macro) THEN c.macro[1] ELSE MacroContext
StateOf(c) == IF c.prop.state = "" THEN "OH" ELSE c.prop.state
YearBuilt(c) == IF c.prop.year_built = 0 THEN 2000 ELSE c.prop.year_built
HasNeighborhood(c) == IsGiven(c.neighborhood)
Neighborhood(c) == c.neighborhood[1]

\* neighborhood.demographics.renter_pct, None without a neighborhood or
\* without demographics.
RenterPct(c) ==
    IF HasNeighborhood(c) /\ IsGiven(Neighborhood(c).demographics)
    THEN Neighborhood(c).demographics[1].renter_pct ELSE <<>>

\* A builder that prefers the last sale price to the estimated value.
est_price_last_sale_first(prop) ==
    IF prop.last_sale_price # 0 THEN prop.last_sale_price ELSE prop.estimated_value

\* Line 95: est_price = prop.estimated_value or prop.last_sale_price.
est_price(prop) ==
    IF prop.estimated_value # 0 THEN prop.estimated_value ELSE prop.last_sale_price

\* Lines 95-110: <<purchase_price, detail>>.
purchase_price(c) ==
    IF est_price(c.prop) # 0 /\ est_price(c.prop) > 0
    THEN _override_or(Ov(c).purchase_price, est_price(c.prop), "API_FETCHED",
                      "HIGH", "RentCast AVM: {est_price}")
    ELSE _override_or(Ov(c).purchase_price, 0, "DEFAULT", "LOW",
                      "No data available - user must provide")

\* Lines 118-129: the loan product.
loan_type(c) == StringOr(Ov(c).loan_type, "conventional")

\* Lines 121-124: the rough NOI, 60% of twelve months of the override rent or
\* else the property's estimated rent; no later statement reads it.
rough_noi(c) ==
    LET rough_rent == IF NumberOr(Ov(c).monthly_rent, 0) # 0 THEN Ov(c).monthly_rent[1]
                      ELSE c.prop.estimated_rent
    IN  (rough_rent * 12 * 60) \div 100

loan(c) == IF loan_type(c) = "dscr" THEN dscr_loan(Macro(c), 120) ELSE conventional_loan(Macro(c))

\* Lines 131-157.
interest_rate(c) ==
    _override_or(Ov(c).interest_rate, loan(c).interest_rate, "ESTIMATED", "MEDIUM",
                 loan(c).rate_source)

ltv(c) ==
    _override_or(Ov(c).ltv, loan(c).ltv, "ESTIMATED", "HIGH", "{loan_type} default: {ltv} LTV")

loan_term(c) ==
    _override_or(Ov(c).loan_term_years, loan(c).loan_term_years, "DEFAULT", "HIGH",
                 "Standard 30-year fixed")

loan_type_detail(c) ==
    _detail(0,
            IF Ov(c).loan_type # <<>> /\ Ov(c).loan_type # <<"">> THEN "USER_OVERRIDE" ELSE "DEFAULT",
            "HIGH", "Loan type: {loan_type}")

\* Lines 162-185.  rent_estimate.confidence other than high, medium, low
\* maps to MEDIUM.
monthly_rent(c) ==
    IF IsGiven(c.rent_estimate) /\ c.rent_estimate[1].estimated_rent > 0
    THEN _override_or(Ov(c).monthly_rent, c.rent_estimate[1].estimated_rent,
                      "API_FETCHED",
                      IF c.rent_estimate[1].confidence = "high" THEN "HIGH"
                      ELSE IF c.rent_estimate[1].confidence = "low" THEN "LOW"
                      ELSE "MEDIUM",
                      "Tiered estimate {est_rent}/mo")
    ELSE IF c.prop.estimated_rent > 0
    THEN _override_or(Ov(c).monthly_rent, c.prop.estimated_rent, "API_FETCHED",
                      "HIGH", "RentCast rent AVM: {est_rent}/mo")
    ELSE _override_or(Ov(c).monthly_rent, 0, "DEFAULT", "LOW",
                      "No rent data - user must provide")

\* Lines 190-209: 0.5 * cpi + grade premium + 0.2 * cpi in millionths,
\* clamped to 0.01..0.06 and quantized to the thousandth.
annual_rent_growth(c) ==
    LET cpi_cagr == NumberOr(Macro(c).cpi_5yr_cagr, 300)
        grade == IF HasNeighborhood(c) THEN Neighborhood(c).grade ELSE ""
        grade_premium == IF grade = "A" THEN 50 ELSE IF grade = "B" THEN 30
                         ELSE IF grade = "D" THEN -50 ELSE IF grade = "F" THEN -100
                         ELSE 0
        weighted == cpi_cagr * 50 + grade_premium * 100 + cpi_cagr * 20
        clamped == Max(10000, Min(60000, weighted))
    IN  _override_or(Ov(c).annual_rent_growth,
                     10 * QuantizeRatioHalfEven(clamped, 1, 1000),
                     "ESTIMATED", "MEDIUM",
                     "50% CPI CAGR + neighborhood grade premium + 20% local trend")

\* Lines 214-237.
vacancy_rate(c) ==
    IF IsGiven(RenterPct(c))
    THEN LET rp == RenterPct(c)[1]
         IN  _override_or(Ov(c).vacancy_rate,
                          IF rp > 6000 THEN 400 ELSE IF rp > 4000 THEN 500
                          ELSE IF rp > 2000 THEN 600 ELSE 800,
                          "ESTIMATED", "MEDIUM", "{level} renter demand -> {rate} vacancy")
    ELSE _override_or(Ov(c).vacancy_rate, 500, "ESTIMATED", "LOW", "Default 5% vacancy")

\* Lines 242-258.
property_tax(c) ==
    IF c.prop.annual_tax > 0
    THEN _override_or(Ov(c).property_tax, c.prop.annual_tax, "API_FETCHED", "HIGH",
                      "RentCast/county assessor: {est_tax}/yr")
    ELSE _override_or(Ov(c).property_tax, QuantizeToDollars(purchase_price(c)[1], 100),
                      "DEFAULT", "LOW", "Default 1% of value: {est_tax}/yr")

\* Lines 263-293.
insurance(c) ==
    LET hurricane_zone_val == IF HasNeighborhood(c) THEN Neighborhood(c).hurricane_zone
                              ELSE <<get_hurricane_zone(StateOf(c))>>
        hail_freq == IF HasNeighborhood(c) THEN Neighborhood(c).hail_frequency
                     ELSE <<get_hail_frequency(StateOf(c))>>
        crime_rate == IF HasNeighborhood(c) /\ IsGiven(Neighborhood(c).crime_rate)
                      THEN Neighborhood(c).crime_rate
                      ELSE <<get_crime_rate(StateOf(c))>>
        estimate == estimate_insurance_composite(purchase_price(c)[1], YearBuilt(c),
                        c.prop.property_type,
                        IF HasNeighborhood(c) THEN Neighborhood(c).flood_zone ELSE <<>>,
                        IF HasNeighborhood(c) THEN Neighborhood(c).seismic_pga ELSE <<>>,
                        IF HasNeighborhood(c) THEN Neighborhood(c).wildfire_risk ELSE <<>>,
                        NumberOr(hurricane_zone_val, 0), StringOr(hail_freq, "low"),
                        crime_rate)
    IN  IF IsGiven(Ov(c).insurance)
        THEN <<Ov(c).insurance[1],
               _detail(Ov(c).insurance[1], "USER_OVERRIDE", "HIGH", "User override: {insurance}/yr")>>
        ELSE estimate

\* Lines 298-318.
maintenance_pct(c) ==
    IF IsGiven(Ov(c).maintenance_pct)
    THEN <<Ov(c).maintenance_pct[1],
           _detail(Ov(c).maintenance_pct[1], "USER_OVERRIDE", "HIGH", "User override: {maintenance_pct}")>>
    ELSE estimate_maintenance_pct(YearBuilt(c), c.condition_grade,
                                  get_climate_zone(StateOf(c)), RenterPct(c))

\* Lines 323-333.
management_pct(c) ==
    IF CompactUpper(c.prop.property_type) = "MULTIFAMILY"
    THEN _override_or(Ov(c).management_pct, 600, "DEFAULT", "MEDIUM", "Multi-family: 6% management")
    ELSE _override_or(Ov(c).management_pct, 800, "DEFAULT", "MEDIUM", "Default 8% SFR management")

\* Lines 338-343.
capex_reserve_pct(c) ==
    _override_or(Ov(c).capex_reserve_pct, 500, "DEFAULT", "MEDIUM", "Standard 5% capex reserve")

\* Lines 348-358.
hoa(c) ==
    IF Upper(c.prop.property_type) \in {"CONDO", "TOWNHOUSE"}
    THEN _override_or(Ov(c).hoa, 25000, "DEFAULT", "LOW", "Estimated condo/townhouse HOA: $250/mo")
    ELSE _override_or(Ov(c).hoa, 0, "DEFAULT", "LOW", "No HOA")

\* Lines 363-381.
annual_appreciation(c) ==
    IF IsGiven(Ov(c).annual_appreciation)
    THEN <<Ov(c).annual_appreciation[1],
           _detail(Ov(c).annual_appreciation[1], "USER_OVERRIDE", "HIGH", "User override: {annual_appreciation}")>>
    ELSE estimate_appreciation(
             IF HasNeighborhood(c) THEN <<Neighborhood(c).grade>> ELSE <<>>,
             Macro(c).cpi_5yr_cagr,
             IF HasNeighborhood(c) /\ IsGiven(Neighborhood(c).walk_score)
             THEN Neighborhood(c).walk_score[1].walk_score ELSE <<>>)

\* Lines 386-398.
land_value_pct(c) ==
    _override_or(Ov(c).land_value_pct, 2000, "DEFAULT", "LOW", "Default 20% land value")

\* Lines 403-411.
annual_expense_growth(c) ==
    _override_or(Ov(c).annual_expense_growth, NumberOr(Macro(c).cpi_5yr_cagr, 200),
                 "ESTIMATED",
                 IF NumberOr(Macro(c).cpi_5yr_cagr, 0) # 0 THEN "MEDIUM" ELSE "LOW",
                 "CPI 5yr CAGR: {est_expense_growth}")

\* Lines 416-421.
hold_years(c) ==
    _override_or(Ov(c).hold_years, 7, "DEFAULT", "MEDIUM", "Default 7-year hold")

\* Lines 426-431.
selling_costs_pct(c) ==
    _override_or(Ov(c).selling_costs_pct, 600, "DEFAULT", "HIGH",
                 "Standard 6% selling costs (agent commission + closing)")

\* Lines 436-450.
closing_costs(c) ==
    IF IsGiven(Ov(c).closing_cost_pct)
    THEN LET amount == QuantizeToDollars(purchase_price(c)[1], Ov(c).closing_cost_pct[1])
         IN  <<amount, _detail(amount, "USER_OVERRIDE", "HIGH", "User override: {closing_cost_pct}")>>
    ELSE LET amount == estimate_closing_costs(purchase_price(c)[1], StateOf(c))[1]
         IN  <<amount, _detail(amount, "ESTIMATED", "MEDIUM", "State-level estimate ({state})")>>

\* The dict details as it stands at line 453, in the order of the
\* assignments details[...] = ....
details(c) ==
    [purchase_price |-> purchase_price(c)[2],
     interest_rate |-> interest_rate(c)[2],
     ltv |-> ltv(c)[2],
     loan_term_years |-> loan_term(c)[2],
     loan_type |-> loan_type_detail(c),
     monthly_rent |-> monthly_rent(c)[2],
     annual_rent_growth |-> annual_rent_growth(c)[2],
     vacancy_rate |-> vacancy_rate(c)[2],
     property_tax |-> property_tax(c)[2],
     insurance |-> insurance(c)[2],
     maintenance_pct |-> maintenance_pct(c)[2],
     management_pct |-> management_pct(c)[2],
     capex_reserve_pct |-> capex_reserve_pct(c)[2],
     hoa |-> hoa(c)[2],
     annual_appreciation |-> annual_appreciation(c)[2],
     land_value_pct |-> land_value_pct(c)[2],
     annual_expense_growth |-> annual_expense_growth(c)[2],
     hold_years |-> hold_years(c)[2],
     selling_costs_pct |-> selling_costs_pct(c)[2],
     closing_costs |-> closing_costs(c)[2]]

\* The default RehabBudget(condition_grade=ConditionGrade.TURNKEY).
TurnkeyRehabBudget == [rehab_months |-> 0, total_cost |-> 0]

\* Lines 455-478: the keyword arguments of DealAssumptions(...).  int() of
\* the term and of the hold leaves whole numbers as they are.
ConstructorKeywords(c) ==
    [purchase_price |-> purchase_price(c)[1],
     closing_costs |-> closing_costs(c)[1],
     land_value_pct |-> land_value_pct(c)[1],
     ltv |-> ltv(c)[1],
     interest_rate |-> interest_rate(c)[1],
     loan_term_years |-> loan_term(c)[1],
     loan_points |-> loan(c).points,
     loan_type |-> loan_type(c),
     monthly_rent |-> monthly_rent(c)[1],
     annual_rent_growth |-> annual_rent_growth(c)[1],
     vacancy_rate |-> vacancy_rate(c)[1],
     property_tax |-> property_tax(c)[1],
     insurance |-> insurance(c)[1],
     maintenance_pct |-> maintenance_pct(c)[1],
     management_pct |-> management_pct(c)[1],
     capex_reserve_pct |-> capex_reserve_pct(c)[1],
     hoa |-> hoa(c)[1],
     annual_appreciation |-> annual_appreciation(c)[1],
     hold_years |-> hold_years(c)[1],
     selling_costs_pct |-> selling_costs_pct(c)[1],
     annual_expense_growth |-> annual_expense_growth(c)[1],
     rehab_budget |-> IF IsGiven(c.rehab_budget) THEN c.rehab_budget[1]
                      ELSE TurnkeyRehabBudget]

\* src/models/assumptions.py: the fields of the dataclass DealAssumptions,
\* which are the keywords its constructor accepts; the scalar ones.
DealAssumptionsScalarFields ==
    {"purchase_price", "closing_costs", "land_value_pct", "ltv", "interest_rate",
     "loan_term_years", "loan_points", "monthly_rent", "annual_rent_growth",
     "vacancy_rate", "other_income", "property_tax", "insurance",
     "maintenance_pct", "management_pct", "capex_reserve_pct", "hoa",
     "annual_appreciation", "hold_years", "selling_costs_pct",
     "placed_in_service_year", "placed_in_service_month", "annual_expense_growth"}

DealAssumptionsFields == DealAssumptionsScalarFields \cup {"cost_seg", "rehab_budget"}

----------------------------------------------------------------------------
(* One call of build_smart_assumptions *)

\* Properties the builder is called on: with and without an estimated
\* value, a last sale price, rent and tax data; the three kinds of type.
BuilderProperties ==
    {[estimated_value |-> v, last_sale_price |-> s, estimated_rent |-> r[1],
      annual_tax |-> r[2], property_type |-> t, year_built |-> 2000,
      state |-> "OH"] :
     v \in {0, 30000000}, s \in {0, 25000000},
     r \in {<<0, 0>>, <<180000, 300000>>}, t \in {"SFR", "Condo", "Multi-Family"}}

\* A NeighborhoodReport with nothing but its grade, and one with
\* demographics, a walk score and hazard data.
BareNeighborhood ==
    [grade |-> "C", demographics |-> <<>>, walk_score |-> <<>>,
     flood_zone |-> <<>>, seismic_pga |-> <<>>, wildfire_risk |-> <<>>,
     hurricane_zone |-> <<>>, hail_frequency |-> <<>>, crime_rate |-> <<>>]

RichNeighborhood ==
    [grade |-> "A", demographics |-> <<[renter_pct |-> <<6500>>]>>,
     walk_score |-> <<[walk_score |-> <<85>>]>>,
     flood_zone |-> <<"AE">>, seismic_pga |-> <<10>>, wildfire_risk |-> <<2>>,
     hurricane_zone |-> <<0>>, hail_frequency |-> <<"low">>,
     crime_rate |-> <<1500>>]

BuilderNeighborhoods == {<<>>, <<BareNeighborhood>>, <<RichNeighborhood>>}

BuilderMacros ==
    {<<>>, <<MacroContext>>,
     <<[mortgage_rate_30y |-> <<650>>, cpi_5yr_cagr |-> <<350>>]>>}

\* A value for each field of UserOverrides, none of them what the builder
\* would estimate.
OverrideValues ==
    [purchase_price |-> 20000000, ltv |-> 7000, interest_rate |-> 625,
     loan_term_years |-> 15, loan_type |-> "dscr", monthly_rent |-> 185000,
     annual_rent_growth |-> 250, vacancy_rate |-> 700, property_tax |-> 310000,
     insurance |-> 123400, maintenance_pct |-> 650, management_pct |-> 1000,
     capex_reserve_pct |-> 300, hoa |-> 7500, annual_appreciation |-> 450,
     land_value_pct |-> 2500, annual_expense_growth |-> 275, hold_years |-> 10,
     selling_costs_pct |-> 500, closing_cost_pct |-> 300]

\* No overrides at all, none set, each field alone, all fields together,
\* and a purchase price of zero.
BuilderOverrides ==
    {<<>>, <<UserOverrides>>}
    \cup {<<[UserOverrides EXCEPT ![f] = <<OverrideValues[f]>>]>> : f \in OverrideFields}
    \cup {<<[f \in OverrideFields |-> <<OverrideValues[f]>>]>>}
    \cup {<<[UserOverrides EXCEPT !.purchase_price = <<0>>]>>}

BuilderRentEstimates == {<<>>, <<[estimated_rent |-> 210000, confidence |-> "low"]>>}

InitBuilder ==
    /\ build_args \in [prop : BuilderProperties, neighborhood : BuilderNeighborhoods,
                       macro : BuilderMacros, overrides : BuilderOverrides,
                       condition_grade : {"turnkey"}, rehab_budget : {<<>>},
                       rent_estimate : BuilderRentEstimates]
    /\ build_pc = "called"
    /\ build_kwargs = <<>>
    /\ build_details = <<>>
    /\ EngineIdle
    /\ ScheduleIdle
    /\ ConstructionIdle
    /\ DataIdle

\* Lines 87-453: the fields are resolved one after the other into details
\* and into the locals that become the constructor's keyword arguments;
\* line 112 raises ValueError on a price that is not positive.
ResolveAssumptions ==
    /\ build_pc = "called"
    /\ IF purchase_price(build_args)[1] <= 0
       THEN /\ build_pc' = "raised ValueError"
            /\ UNCHANGED <<build_kwargs, build_details>>
       ELSE /\ build_pc' = "constructing"
            /\ build_kwargs' = ConstructorKeywords(build_args)
            /\ build_details' = details(build_args)
    /\ UNCHANGED <<engineVars, scheduleVars, constructionVars, build_args, dataVars>>

\* Lines 455-481: DealAssumptions(**keywords), whose generated __init__
\* raises TypeError on a keyword that is not a field and on a missing
\* purchase_price, then AssumptionManifest(details=details) and the return
\* of the pair.
ConstructAndReturn ==
    /\ build_pc = "constructing"
    /\ build_pc' = IF /\ DOMAIN build_kwargs \subseteq DealAssumptionsFields
                      /\ "purchase_price" \in DOMAIN build_kwargs
                   THEN "returned" ELSE "raised TypeError"
    /\ UNCHANGED <<engineVars, scheduleVars, constructionVars, dataVars, build_args,
                   build_kwargs, build_details>>

NextBuilder == ResolveAssumptions \/ ConstructAndReturn

SpecBuilder == InitBuilder /\ [][NextBuilder]_vars

----------------------------------------------------------------------------
(* Calls of estimate_maintenance_pct with the same arguments while the
   calendar advances.  The function reads datetime.date.today(); the date is
   an input of each call that the caller does not pass. *)

MaxClockYears == 2

MaintenanceYearsBuilt == {0, 1976, 1996, 2000, 2021}
MaintenanceConditions == {"turnkey", "medium", "full_gut"}
MaintenanceClimates == {"mixed_humid", "cold"}
MaintenanceRenterPcts == {<<>>, <<6000>>}
MaxMaintenanceCalls == 2

InitMaintenance ==
    /\ EngineIdle
    /\ EarlierCallsIdle
    /\ RentIdle
    /\ PureIdle
    /\ today_year = CurrentYear
    /\ \E yb \in MaintenanceYearsBuilt, cg \in MaintenanceConditions,
          cz \in MaintenanceClimates, rp \in MaintenanceRenterPcts :
           maint_args = [year_built |-> yb, condition_grade |-> cg,
                         climate_zone |-> cz, renter_pct |-> rp]
    /\ maint_results = <<>>

\* One call of estimate_maintenance_pct with the arguments maint_args.
CallEstimateMaintenance ==
    /\ Len(maint_results) < MaxMaintenanceCalls
    /\ maint_results' = Append(maint_results,
           estimate_maintenance_pct_on(today_year, maint_args.year_built,
                                       maint_args.condition_grade,
                                       maint_args.climate_zone,
                                       maint_args.renter_pct))
    /\ UNCHANGED <<engineVars, earlierCallVars, rentVars, pureVars, today_year, maint_args>>

\* New Year's Day between two calls.
YearPasses ==
    /\ today_year < CurrentYear + MaxClockYears
    /\ today_year' = today_year + 1
    /\ UNCHANGED <<engineVars, earlierCallVars, rentVars, pureVars, maint_args, maint_results>>

NextMaintenance == CallEstimateMaintenance \/ YearPasses

SpecMaintenance == InitMaintenance /\ [][NextMaintenance]_vars

----------------------------------------------------------------------------
(* src/data/rent_estimator.py and src/data/rent_cache.py.  Rents of the tiers
   are whole dollars; rents of a RentEstimate are cents; weights are tenths;
   confidence scores are thousandths; time is counted in days. *)

TIER_WEIGHTS(tier) ==
    IF tier = "llm" THEN 3 ELSE IF tier = "hud" THEN 3
    ELSE IF tier = "rentcast" THEN 4 ELSE 2

\* CACHE_TTL.get(tier, 7), in days.
CACHE_TTL(tier) ==
    IF tier = "hud" THEN 180 ELSE IF tier = "rentcast" THEN 30 ELSE 7

\* _cache_key: address.lower().strip() of the addresses of the model, with
\* beds, baths (in tenths), sqft and the tier.
LowerStripped(address) ==
    IF address = "123 Main St" THEN "123 main st"
    ELSE IF address = "9 Elm Rd" THEN "9 elm rd"
    ELSE address

_cache_key(address, beds, baths, sqft, tier) ==
    <<LowerStripped(address), beds, baths, sqft, tier>>

_confidence_label(score) ==
    IF score >= 750 THEN "high" ELSE IF score >= 500 THEN "medium" ELSE "low"

TierResult(tier, estimate, confidence, reasoning) ==
    [tier |-> tier, estimate |-> estimate, confidence |-> confidence,
     reasoning |-> reasoning]

RentEstimate(address, estimated_rent, confidence, confidence_score, needs_review, tier_results, recommended_range) ==
    [address |-> address, estimated_rent |-> estimated_rent,
     confidence |-> confidence, confidence_score |-> confidence_score,
     needs_review |-> needs_review, tier_results |-> tier_results,
     recommended_range |-> recommended_range]

\* round(x, 2) of x = n / d dollars (d > 0), as cents; the float x of the
\* code rounds like n / d wherever n / d is not half a cent.
RoundToCents(n, d) ==
    IF n >= 0 THEN QuantizeRatioHalfEven(n, 100, d)
    ELSE -QuantizeRatioHalfEven(-n, 100, d)

\* _build_single_tier_estimate.
_build_single_tier_estimate(address, result) ==
    LET est == IF IsGiven(result.estimate) THEN result.estimate[1] ELSE 0
        score == IF result.confidence = "high" THEN 800
                 ELSE IF result.confidence = "medium" THEN 600 ELSE 300
        \* est * (1 - score) * 0.3, in cents
        margin == (est * (1000 - score) * 3) \div 100
    IN  RentEstimate(address, 100 * est, result.confidence, score,
                     ~IsGiven(result.estimate), <<result>>,
                     <<100 * est - margin, 100 * est + margin>>)

\* Lines 137-141 of _estimate_auto: the comparison of Tier 1 and Tier 2.  A
\* tier's estimate takes part when it is truthy: neither None nor 0.0.
TiersDisagree(llm_result, hud_result) ==
    LET truthy(r) == IsGiven(r.estimate) /\ r.estimate[1] # 0
        l == llm_result.estimate[1]
        h == hud_result.estimate[1]
    IN  /\ truthy(llm_result)
        /\ truthy(hud_result)
        /\ l + h > 0
        \* abs(l - h) / ((l + h) / 2) > 0.20
        /\ 10 * Abs(l - h) > l + h

\* sum(...) over the at most three tier results of a call.
SumTiers(term(_), tier_results) ==
    LET at(i) == IF i <= Len(tier_results) THEN term(tier_results[i]) ELSE 0
    IN  at(1) + at(2) + at(3)

\* _blend_results.
_blend_results(address, tier_results, needs_review) ==
    LET valid == SelectSeq(tier_results, LAMBDA tr : IsGiven(tr.estimate))
        weight(tr) == TIER_WEIGHTS(tr.tier)
        conf(tr) == IF tr.confidence = "high" THEN 85
                    ELSE IF tr.confidence = "medium" THEN 60 ELSE 30
        weighted(tr) == tr.estimate[1] * weight(tr)
        weighted_score(tr) == conf(tr) * weight(tr)
        rent(tr) == tr.estimate[1]
        total_weight == SumTiers(weight, valid)
        \* blended = blended_n / total_weight dollars
        blended_n == SumTiers(weighted, valid)
        weighted_conf == SumTiers(weighted_score, valid)
        n == Len(valid)
        total == SumTiers(rent, valid)
        \* max(abs(e - avg) / avg) against 0.10 and 0.25, avg = total / n
        close == total > 0 /\ \A i \in 1..n : 10 * Abs(n * valid[i].estimate[1] - total) < total
        far == total <= 0 \/ \E i \in 1..n : 4 * Abs(n * valid[i].estimate[1] - total) > total
        bonus == IF n < 2 THEN 0 ELSE IF close THEN 100 ELSE IF far THEN -100 ELSE 0
        raw_n == 10 * weighted_conf + bonus * total_weight
        confidence_score == IF raw_n <= 0 THEN 0
                            ELSE Min(1000, QuantizeRatioHalfEven(raw_n, 1, total_weight))
        low_est == CHOOSE e \in {valid[i].estimate[1] : i \in 1..n} :
                       \A i \in 1..n : e <= valid[i].estimate[1]
        high_est == CHOOSE e \in {valid[i].estimate[1] : i \in 1..n} :
                       \A i \in 1..n : e >= valid[i].estimate[1]
        \* margin = blended * (1 - confidence_score) * 0.15
        \*        = margin_n / (2000 * total_weight) * 3 dollars
        margin_n == 3 * blended_n * (1000 - confidence_score)
        margin_d == 20000 * total_weight
    IN  IF valid = <<>>
        THEN RentEstimate(address, 0, "low", 0, TRUE, tier_results, <<0, 0>>)
        ELSE RentEstimate(address, RoundToCents(blended_n, total_weight),
                          _confidence_label(confidence_score), confidence_score,
                          needs_review, tier_results,
                          <<RoundToCents(low_est * margin_d - margin_n, margin_d),
                            RoundToCents(high_est * margin_d + margin_n, margin_d)>>)

----------------------------------------------------------------------------
(* Concurrent calls of RentEstimator.estimate_rent on one event loop, sharing
   the rent cache and the usage log.  A call runs without interruption from
   one await to the next; at an await the other calls and the clock may
   move.  The tiers' answers are inputs. *)

RentCalls == {1, 2}

\* The days on which the clock is read.
ClockDays == {0, 6, 7}

\* settings.rentcast_monthly_limit of the run.
RentcastLimits == {1}

RentAddresses == {"123 Main St", "9 Elm Rd"}
RentModes == {"auto", "rentcast"}

NoEstimate == [address |-> "", estimated_rent |-> 0, confidence |-> "",
               confidence_score |-> 0, needs_review |-> FALSE,
               tier_results |-> <<>>, recommended_range |-> <<0, 0>>]

\* What _estimate_llm can return: no estimate, or rent_mid with the
\* confidence of the spread.
LLMAnswers ==
    {TierResult("llm", <<>>, "low", "Error"),
     TierResult("llm", <<0>>, "low", "reasoning"),
     TierResult("llm", <<1500>>, "medium", "reasoning"),
     TierResult("llm", <<2200>>, "medium", "reasoning")}

\* What _estimate_hud can return: no estimate, or the adjusted FMR.
HUDAnswers ==
    {TierResult("hud", <<>>, "low", "HUD FMR data unavailable"),
     TierResult("hud", <<1400>>, "medium", "FMR adjusted by sqft ratio"),
     TierResult("hud", <<1800>>, "medium", "FMR adjusted by sqft ratio")}

\* The answers the tiers give to the call i: any of the above to the first
\* call, those of the mocks of tests/data/test_rent_estimator.py to the
\* other.
LLMAnswersTo(i) ==
    IF i = 1 THEN LLMAnswers ELSE {TierResult("llm", <<1500>>, "medium", "reasoning")}

HUDAnswersTo(i) ==
    IF i = 1 THEN HUDAnswers
    ELSE {TierResult("hud", <<1400>>, "medium", "FMR adjusted by sqft ratio")}

\* What rentcast_client.get_rent_estimate can do.
RentcastAnswers == {"none", "raises", "1550"}

\* The call i has not started.
PendingCall(address, tier, serious) ==
    [address |-> address, tier |-> tier, serious |-> serious, pc |-> "pending",
     returned_on |-> 0, completed_recently |-> {},
     llm_result |-> <<>>, hud_result |-> <<>>, needs_review |-> FALSE,
     cache_hit |-> FALSE, invoked |-> {}, estimate |-> NoEstimate]

\* A cache whose rows are never handed out.
get_cached_never(cache, key, now) == <<>>

\* rent_cache.py: get_cached, the row of the key that has not expired.
get_cached(cache, key, now) ==
    IF key \in DOMAIN cache /\ cache[key].expires_at > now
    THEN <<cache[key].estimate_json>> ELSE <<>>

\* rent_cache.py: set_cached, INSERT OR REPLACE.
set_cached(cache, key, data, ttl_days, now) ==
    [k \in DOMAIN cache \cup {key} |->
        IF k = key THEN [estimate_json |-> data, expires_at |-> now + ttl_days]
        ELSE cache[k]]

\* rent_cache.py: log_usage; the rows are counted per tier and cache_hit.
log_usage(usage, tier, cache_hit) ==
    [r \in DOMAIN usage \cup {<<tier, cache_hit>>} |->
        (IF r \in DOMAIN usage THEN usage[r] ELSE 0)
        + (IF r = <<tier, cache_hit>> THEN 1 ELSE 0)]

\* rent_cache.py: get_rentcast_calls_this_month; every day of the model
\* lies in one calendar month.
get_rentcast_calls_this_month(usage) ==
    IF <<"rentcast", FALSE>> \in DOMAIN usage THEN usage[<<"rentcast", FALSE>>] ELSE 0

\* Lines 148-151 of _estimate_auto: one row per tier result with an estimate.
RECURSIVE LogTiers(_, _)
LogTiers(usage, tier_results) ==
    IF tier_results = <<>> THEN usage
    ELSE LogTiers(IF IsGiven(Head(tier_results).estimate)
                  THEN log_usage(usage, Head(tier_results).tier, FALSE)
                  ELSE usage,
                  Tail(tier_results))

KeyOf(call) == _cache_key(call.address, 3, 15, 1200, call.tier)

InitRentEstimator ==
    /\ EngineIdle
    /\ EarlierCallsIdle
    /\ MaintenanceIdle
    /\ PureIdle
    /\ rent_clock = 0
    /\ rent_cache = <<>>
    /\ api_usage = <<>>
    /\ api_requests = 0
    /\ rentcast_limit \in RentcastLimits
    /\ \E a \in RentAddresses, t \in RentModes, s1, s2 \in BOOLEAN :
           rent_calls = [i \in RentCalls |->
               IF i = 1 THEN PendingCall("123 Main St", "auto", s1)
               ELSE PendingCall(a, t, s2 /\ t = "auto")]

\* The call i returns estimate; nothing more of it runs.
Returned(i, call, estimate) ==
    rent_calls' = [rent_calls EXCEPT ![i] =
        [call EXCEPT !.pc = "returned", !.returned_on = rent_clock,
                     !.estimate = estimate]]

\* Lines 143-153 of _estimate_auto: blend, store, log, return.
FinishAuto(i, call, tier_results) ==
    LET estimate == _blend_results(call.address, tier_results, call.needs_review)
    IN  /\ rent_cache' = set_cached(rent_cache, KeyOf(call), estimate, 7, rent_clock)
        /\ api_usage' = LogTiers(api_usage, tier_results)
        /\ Returned(i, call, estimate)

\* Lines 92-96 of estimate_rent: build, store, log, return.
FinishSingle(i, call, result) ==
    LET estimate == _build_single_tier_estimate(call.address, result)
    IN  /\ rent_cache' = set_cached(rent_cache, KeyOf(call), estimate,
                                    CACHE_TTL(call.tier), rent_clock)
        /\ api_usage' = log_usage(api_usage, call.tier, FALSE)
        /\ Returned(i, call, estimate)

\* The call i has the result of its RentCast tier.
FinishTier3(i, call, result) ==
    IF call.tier = "auto"
    THEN FinishAuto(i, call, <<call.llm_result[1], call.hud_result[1], result>>)
    ELSE FinishSingle(i, call, result)

\* _estimate_rentcast up to its first await: the rate limit check.
EnterRentcast(i, call) ==
    LET calls_this_month == get_rentcast_calls_this_month(api_usage)
        entered == [call EXCEPT !.invoked = @ \cup {"rentcast"}]
    IN  IF calls_this_month >= rentcast_limit
        THEN FinishTier3(i, entered,
                 TierResult("rentcast", <<>>, "low", "Monthly RentCast limit reached"))
        ELSE /\ rent_calls' = [rent_calls EXCEPT ![i] = [entered EXCEPT !.pc = "geocode"]]
             /\ UNCHANGED <<rent_cache, api_usage>>

\* estimate_rent from its entry to the first await: the cache lookup, and on
\* a miss the start of the tiers.  The call notes which calls have returned
\* less than seven days ago.
StartCall(i) ==
    LET call == [rent_calls[i] EXCEPT
                     !.completed_recently =
                         {j \in RentCalls : /\ rent_calls[j].pc = "returned"
                                            /\ rent_clock < rent_calls[j].returned_on + 7}]
        cached == get_cached(rent_cache, KeyOf(call), rent_clock)
    IN  /\ rent_calls[i].pc = "pending"
        /\ IF IsGiven(cached)
           THEN /\ api_usage' = log_usage(api_usage, call.tier, TRUE)
                /\ Returned(i, [call EXCEPT !.cache_hit = TRUE], cached[1])
                /\ UNCHANGED rent_cache
           ELSE IF call.tier = "auto"
           THEN /\ rent_calls' = [rent_calls EXCEPT ![i] =
                       [call EXCEPT !.pc = "gather", !.invoked = {"llm", "hud"}]]
                /\ UNCHANGED <<rent_cache, api_usage>>
           ELSE EnterRentcast(i, call)
        /\ UNCHANGED <<engineVars, earlierCallVars, maintenanceVars, pureVars, rent_clock,
                       api_requests, rentcast_limit>>

\* _estimate_auto from the return of asyncio.gather to the next await.
Gathered(i) ==
    /\ rent_calls[i].pc = "gather"
    /\ \E llm_result \in LLMAnswersTo(i), hud_result \in HUDAnswersTo(i) :
           LET call == [rent_calls[i] EXCEPT
                            !.llm_result = <<llm_result>>,
                            !.hud_result = <<hud_result>>,
                            !.needs_review = TiersDisagree(llm_result, hud_result)]
           IN  IF call.serious THEN EnterRentcast(i, call)
               ELSE FinishAuto(i, call, <<llm_result, hud_result>>)
    /\ UNCHANGED <<engineVars, earlierCallVars, maintenanceVars, pureVars, rent_clock,
                   api_requests, rentcast_limit>>

\* _estimate_rentcast from the return of geocode_address to the next await:
\* on success the request to the RentCast API is issued.
Geocoded(i) ==
    /\ rent_calls[i].pc = "geocode"
    /\ \/ /\ FinishTier3(i, rent_calls[i],
                 TierResult("rentcast", <<>>, "low", "Geocoding failed"))
          /\ UNCHANGED api_requests
       \/ /\ rent_calls' = [rent_calls EXCEPT ![i].pc = "request"]
          /\ api_requests' = api_requests + 1
          /\ UNCHANGED <<rent_cache, api_usage>>
    /\ UNCHANGED <<engineVars, earlierCallVars, maintenanceVars, pureVars, rent_clock,
                   rentcast_limit>>

\* The RentCast API answers the request of the call i.
RentcastAnswered(i) ==
    /\ rent_calls[i].pc = "request"
    /\ \E answer \in RentcastAnswers :
           IF answer = "raises"
           THEN IF rent_calls[i].tier = "auto"
                THEN FinishTier3(i, rent_calls[i],
                         TierResult("rentcast", <<>>, "low", "Error"))
                ELSE /\ rent_calls' = [rent_calls EXCEPT ![i].pc = "raised"]
                     /\ UNCHANGED <<rent_cache, api_usage>>
           ELSE IF answer = "none"
           THEN FinishTier3(i, rent_calls[i],
                    TierResult("rentcast", <<>>, "low", "RentCast returned no data"))
           ELSE FinishTier3(i, rent_calls[i],
                    TierResult("rentcast", <<1550>>, "high", "RentCast AVM rent estimate"))
    /\ UNCHANGED <<engineVars, earlierCallVars, maintenanceVars, pureVars, rent_clock,
                   api_requests, rentcast_limit>>

\* Days pass.
DaysPass ==
    /\ \E day \in ClockDays : day > rent_clock /\ rent_clock' = day
    /\ UNCHANGED <<engineVars, earlierCallVars, maintenanceVars, pureVars, rent_cache,
                   api_usage, rent_calls, api_requests, rentcast_limit>>

NextRentEstimator ==
    \/ \E i \in RentCalls : StartCall(i)
    \/ \E i \in RentCalls : Gathered(i)
    \/ \E i \in RentCalls : Geocoded(i)
    \/ \E i \in RentCalls : RentcastAnswered(i)
    \/ DaysPass

SpecRentEstimator == InitRentEstimator /\ [][NextRentEstimator]_vars

----------------------------------------------------------------------------
(* One call of estimate_insurance_composite *)

\* Market values in cents: none, $100,000, the values whose base premium is
\* $399 and $400, and $300,000.
InsuredValues == {0, 10000000, 14250000, 14285700, 30000000}

InsuranceCalls ==
    {[NoInsuranceCall EXCEPT !.market_value = v, !.year_built = yb,
                             !.property_type = pt, !.flood_zone = fz,
                             !.wildfire_risk = wf, !.hail_frequency = "low"] :
        v \in InsuredValues, yb \in {0, 1940, 2000},
        pt \in {"SFR", "Condo", "Multi-Family"},
        fz \in {<<>>, <<"AE">>}, wf \in {<<>>, <<5>>}}

InitInsurance ==
    /\ EngineIdle
    /\ EarlierCallsIdle
    /\ MaintenanceIdle
    /\ RentIdle
    /\ IncomeIdle
    /\ DepreciationIdle
    /\ ins_args \in InsuranceCalls
    /\ ins_result = <<>>

EstimateInsurance ==
    /\ ins_result = <<>>
    /\ ins_result' = estimate_insurance_composite(
                         ins_args.market_value, ins_args.year_built,
                         ins_args.property_type, ins_args.flood_zone,
                         ins_args.seismic_pga, ins_args.wildfire_risk,
                         ins_args.hurricane_zone, ins_args.hail_frequency,
                         ins_args.crime_rate)
    /\ UNCHANGED <<engineVars, earlierCallVars, maintenanceVars, rentVars,
                   incomeVars, dep_years, ins_args>>

NextInsurance == EstimateInsurance

SpecInsurance == InitInsurance /\ [][NextInsurance]_vars

----------------------------------------------------------------------------
(* One call of effective_gross_income *)

MaxIncomeYear == 3

\* The calls of the engine that take no part in a call of a pure function
\* of the deal.
EngineCallsIdle ==
    /\ investor = CHOOSE inv \in Investors : TRUE
    /\ PassiveIdle
    /\ LedgerIdle
    /\ ReadsIdle
    /\ DispositionIdle
    /\ ProformaIdle

\* Rents of $2,800.00, $1,850.00 and $1,000.05 a month, vacancies of 0%,
\* 2.5%, 5% and 8%, with and without other income, growth and a six-month
\* rehab.
IncomeDeals ==
    {[CanonicalDeal EXCEPT !.monthly_rent = m, !.vacancy_rate = v,
                           !.other_income = o, !.annual_rent_growth = g,
                           !.rehab_budget = [rehab_months |-> r, total_cost |-> 0]] :
        m \in {280000, 185000, 100005}, v \in {0, 25, 50, 80},
        o \in {0, 5000}, g \in {0, 30}, r \in {0, 6}}

InitIncome ==
    /\ EngineCallsIdle
    /\ assumptions \in IncomeDeals
    /\ EarlierCallsIdle
    /\ MaintenanceIdle
    /\ RentIdle
    /\ InsuranceIdle
    /\ DepreciationIdle
    /\ egi_year = 0
    /\ egi_result = <<>>

ComputeIncome ==
    /\ egi_result = <<>>
    /\ \E year \in 1..MaxIncomeYear :
           /\ egi_year' = year
           /\ egi_result' = <<effective_gross_income(assumptions, year)>>
    /\ UNCHANGED <<engineVars, earlierCallVars, maintenanceVars, rentVars,
                   insuranceVars, dep_years>>

NextIncome == ComputeIncome

SpecIncome == InitIncome /\ [][NextIncome]_vars

----------------------------------------------------------------------------
(* compute_yearly_depreciation for the years 1, 2, ... of one deal *)

\* The years computed: one more than the longest class vector.
MaxDepreciationYear == 17

\* (five_year, seven_year, fifteen_year): no study, one class each, and all
\* three.
CostSegAllocations ==
    {<<0, 0, 0>>, <<200, 0, 0>>, <<0, 150, 0>>, <<0, 0, 100>>, <<150, 50, 100>>}

\* The class bases of the deal a: dep_basis * cost_seg.<class>.
ClassBasis(a, share) == QuantizeProduct(depreciable_basis(a), share)

\* Deals placed in service without bonus (2020) and with 80%, 60% and 100%
\* bonus, in January and in July, whose class bases are whole cents.
DepreciationDeals ==
    {a \in {[CanonicalDeal EXCEPT
                !.purchase_price = p,
                !.cost_seg = [five_year |-> c[1], seven_year |-> c[2],
                              fifteen_year |-> c[3]],
                !.placed_in_service_year = y,
                !.placed_in_service_month = m] :
              p \in {50000000, 12345675}, c \in CostSegAllocations,
              y \in {2020, 2023, 2024, 2025}, m \in {1, 7}} :
        /\ WholeCents(total_basis(a), RateScale - a.land_value_pct)
        /\ WholeCents(depreciable_basis(a), a.cost_seg.five_year)
        /\ WholeCents(depreciable_basis(a), a.cost_seg.seven_year)
        /\ WholeCents(depreciable_basis(a), a.cost_seg.fifteen_year)}

InitDepreciation ==
    /\ EngineCallsIdle
    /\ assumptions \in DepreciationDeals
    /\ EarlierCallsIdle
    /\ MaintenanceIdle
    /\ RentIdle
    /\ InsuranceIdle
    /\ IncomeIdle
    /\ dep_years = <<>>

\* compute_yearly_depreciation for the next year.
ComputeYearlyDepreciation ==
    /\ Len(dep_years) < MaxDepreciationYear
    /\ dep_years' = Append(dep_years,
           compute_yearly_depreciation(assumptions, Len(dep_years) + 1))
    /\ UNCHANGED <<engineVars, earlierCallVars, maintenanceVars, rentVars,
                   insuranceVars, incomeVars>>

NextDepreciation == ComputeYearlyDepreciation

SpecDepreciation == InitDepreciation /\ [][NextDepreciation]_vars

----------------------------------------------------------------------------
(* Properties of the passive-activity ledger *)

\* t is a * r / RateScale rounded half-up to the cent (a >= 0, r >= 0),
\* stated by the two inequalities of rounding rather than by QuantizeProduct.
RoundsToCent(t, a, r) ==
    LET d == t - (a \div RateScale) * r
        m == (a % RateScale) * r
    IN  /\ 2 * RateScale * d <= 2 * m + RateScale
        /\ 2 * m + RateScale < 2 * RateScale * d + 2 * RateScale

\* C2: in every ledger built by build_passive_activity_ledger, entry n's
\* cumulative_suspended is the previous entry's (0 before entry 1) plus its
\* suspended_amount minus the suspended losses released that year, and losses
\* are released only in a year with net passive income.
C2_LedgerRecurrence ==
    \A n \in 1..Len(ledger) :
        LET e == ledger[n]
            prev == IF n = 1 THEN 0 ELSE ledger[n - 1].cumulative_suspended
            net == e.rental_income_or_loss + e.other_passive_income
            released == prev + e.suspended_amount - e.cumulative_suspended
        IN  /\ released >= 0
            /\ released # 0 => net >= 0
            /\ net >= 0 => released = Min(prev, net)

\* A ledger in which a loss was suspended and a later year released part of it.
C2_Witness ==
    /\ ledger_pc = "returned"
    /\ \E n \in 2..Len(ledger) :
          /\ ledger[n - 1].suspended_amount > 0
          /\ ledger[n].cumulative_suspended < ledger[n - 1].cumulative_suspended
          /\ ledger[n].cumulative_suspended > 0

\* C3: a loss year (net passive loss L > 0) of an investor who is not a
\* real-estate professional: allowed = min(L, rental_loss_allowance),
\* deductible_amount = -allowed, suspended_amount = L - allowed,
\* cumulative_suspended = prior_suspended + (L - allowed), tax_benefit =
\* allowed x combined_rate to the cent; with AGI >= 150 000 the whole loss is
\* suspended and the tax benefit is 0.
C3_AllowanceLossYear ==
    LET net == pa_args.rental + investor.other_passive_income
        L == -net
        allowed == Min(L, rental_loss_allowance(investor))
    IN  (pa_entry # NoEntry /\ ~investor.is_re_professional /\ net < 0) =>
            /\ pa_entry.deductible_amount = -allowed
            /\ pa_entry.suspended_amount = L - allowed
            /\ pa_entry.cumulative_suspended = pa_args.prior + (L - allowed)
            /\ RoundsToCent(pa_entry.tax_benefit, allowed, combined_rate(investor))
            /\ investor.agi >= 150000 =>
                  /\ pa_entry.suspended_amount = L
                  /\ pa_entry.deductible_amount = 0
                  /\ pa_entry.tax_benefit = 0

\* A loss larger than a partly phased-out allowance, on top of a prior balance.
C3_Witness ==
    /\ pa_entry # NoEntry
    /\ ~investor.is_re_professional
    /\ investor.agi = 120000
    /\ pa_args.prior > 0
    /\ pa_entry.deductible_amount = -1500000
    /\ pa_entry.suspended_amount > 0
    /\ pa_entry.tax_benefit > 0

\* C4: a year with net_passive >= 0 releases usable = min(prior_suspended,
\* net_passive): cumulative_suspended = prior_suspended - usable,
\* deductible_amount = -usable, tax_benefit = usable x combined_rate to the
\* cent, suspended_amount = 0.
C4_IncomeYearRelease ==
    LET net == pa_args.rental + investor.other_passive_income
        usable == Min(pa_args.prior, net)
    IN  (pa_entry # NoEntry /\ net >= 0) =>
            /\ pa_entry.cumulative_suspended = pa_args.prior - usable
            /\ pa_entry.deductible_amount = -usable
            /\ RoundsToCent(pa_entry.tax_benefit, usable, combined_rate(investor))
            /\ pa_entry.suspended_amount = 0

\* Income larger than zero but smaller than the prior balance: part released.
C4_Witness ==
    /\ pa_entry # NoEntry
    /\ pa_args.rental + investor.other_passive_income > 0
    /\ pa_entry.deductible_amount < 0
    /\ pa_entry.cumulative_suspended > 0
    /\ pa_entry.tax_benefit > 0

\* C5: a loss year of a real-estate professional: deductible_amount = -loss,
\* tax_benefit = loss x combined_rate to the cent, suspended_amount = 0, and
\* cumulative_suspended = prior_suspended.
C5_ProfessionalLossYear ==
    LET net == pa_args.rental + investor.other_passive_income
        loss == -net
    IN  (pa_entry # NoEntry /\ investor.is_re_professional /\ net < 0) =>
            /\ pa_entry.deductible_amount = -loss
            /\ RoundsToCent(pa_entry.tax_benefit, loss, combined_rate(investor))
            /\ pa_entry.suspended_amount = 0
            /\ pa_entry.cumulative_suspended = pa_args.prior

\* A professional's loss year entered with a suspended balance.
C5_Witness ==
    /\ pa_entry # NoEntry
    /\ investor.is_re_professional
    /\ pa_args.prior > 0
    /\ pa_entry.deductible_amount < 0
    /\ pa_entry.tax_benefit > 0

\* C6: rental_loss_allowance is 25 000 for AGI <= 100 000, 25 000 -
\* (AGI - 100 000)/2 for 100 000 < AGI < 150 000, 0 for AGI >= 150 000, 0 for
\* a real-estate professional; it lies in [0, 25 000] and never increases
\* with AGI.
C6_AllowanceSchedule ==
    /\ \A i \in 1..Len(allowance_reads) :
          LET r == allowance_reads[i]
          IN  /\ r.allowance >= 0
              /\ r.allowance <= 2500000
              /\ r.is_re_professional => r.allowance = 0
              /\ (~r.is_re_professional /\ r.agi <= 100000) =>
                     r.allowance = 2500000
              /\ (~r.is_re_professional /\ r.agi > 100000 /\ r.agi < 150000) =>
                     2 * r.allowance = 5000000 - (r.agi - 100000) * 100
              /\ r.agi >= 150000 => r.allowance = 0
    /\ \A i, j \in 1..Len(allowance_reads) :
          LET r == allowance_reads[i]
              q == allowance_reads[j]
          IN  (r.is_re_professional = q.is_re_professional /\ r.agi <= q.agi) =>
                  q.allowance <= r.allowance

\* Two reads inside the phase-out band with different allowances.
C6_Witness ==
    /\ Len(allowance_reads) = 2
    /\ allowance_reads[1].agi = 120000
    /\ allowance_reads[1].allowance = 1500000
    /\ allowance_reads[2].agi = 149999
    /\ allowance_reads[2].allowance = 50
    /\ ~allowance_reads[1].is_re_professional
    /\ ~allowance_reads[2].is_re_professional

----------------------------------------------------------------------------
(* Properties of the disposition *)

\* C9: whenever compute_disposition finds total_gain > 0,
\* depreciation_recapture = min(total_depreciation_taken, total_gain),
\* capital_gain = total_gain - depreciation_recapture, both are non-negative
\* and they add up to total_gain.
C9_GainSplit ==
    (disp_result.returned /\ disp_result.total_gain > 0) =>
        /\ disp_result.depreciation_recapture =
               Min(disp_args.total_depreciation_taken, disp_result.total_gain)
        /\ disp_result.capital_gain =
               disp_result.total_gain - disp_result.depreciation_recapture
        /\ disp_result.depreciation_recapture >= 0
        /\ disp_result.capital_gain >= 0
        /\ disp_result.depreciation_recapture + disp_result.capital_gain =
               disp_result.total_gain

\* A gain smaller than the depreciation taken: the recapture is capped.
C9_Witness ==
    /\ disp_result.returned
    /\ disp_result.total_gain > 0
    /\ disp_result.total_gain < disp_args.total_depreciation_taken
    /\ disp_result.depreciation_recapture = disp_result.total_gain

\* C10: when total_gain <= 0, compute_disposition charges no recapture,
\* capital-gains, NIIT or state tax, releases all cumulative suspended losses
\* at the combined ordinary rate (to the cent), and returns total_tax_on_sale
\* = -tax_benefit_from_release and after_tax_sale_proceeds =
\* gross_equity_proceeds + tax_benefit_from_release.
C10_LossOnSale ==
    (disp_result.returned /\ disp_result.total_gain <= 0) =>
        /\ disp_result.recapture_tax = 0
        /\ disp_result.capital_gains_tax = 0
        /\ disp_result.niit_on_gain = 0
        /\ disp_result.state_tax_on_gain = 0
        /\ disp_result.suspended_losses_released =
               disp_args.cumulative_suspended_losses
        /\ RoundsToCent(disp_result.tax_benefit_from_release,
               disp_args.cumulative_suspended_losses, combined_rate(investor))
        /\ disp_result.total_tax_on_sale = -disp_result.tax_benefit_from_release
        /\ disp_result.after_tax_sale_proceeds =
               disp_result.gross_equity_proceeds
                   + disp_result.tax_benefit_from_release

\* A sale below adjusted basis with a suspended balance to release.
C10_Witness ==
    /\ disp_result.returned
    /\ disp_result.total_gain < 0
    /\ disp_result.suspended_losses_released = 5000000
    /\ disp_result.tax_benefit_from_release > 0
    /\ disp_result.after_tax_sale_proceeds > disp_result.gross_equity_proceeds

----------------------------------------------------------------------------
(* Properties of run_proforma *)

\* C1: within one run_proforma call the years are processed in ascending
\* order 1..hold_years, the passive-activity entry of each year is computed
\* from the cumulative_suspended of the year before (0 for year 1), and the
\* disposition is given the balance of the last year, so that
\* disposition.suspended_losses_released is the final ledger balance.
C1_LedgerCarriedInOrder ==
    /\ Len(pa_calls) = Len(passive_ledger)
    /\ Len(pa_calls) <= assumptions.hold_years
    /\ \A n \in 1..Len(pa_calls) :
           /\ pa_calls[n].year = n
           /\ passive_ledger[n].year = n
           /\ pa_calls[n].prior_suspended =
                  (IF n = 1 THEN 0
                   ELSE passive_ledger[n - 1].cumulative_suspended)
    /\ disposition.returned =>
           /\ Len(passive_ledger) = assumptions.hold_years
           /\ disposition.suspended_losses_released =
                  (IF passive_ledger = <<>> THEN 0
                   ELSE passive_ledger[Len(passive_ledger)].cumulative_suspended)

\* A returned run whose suspended balance grew in year 1, changed again in
\* year 2 and was released at the sale.
C1_Witness ==
    /\ pf_pc = "returned"
    /\ Len(passive_ledger) >= 2
    /\ passive_ledger[1].cumulative_suspended > 0
    /\ passive_ledger[2].cumulative_suspended
           # passive_ledger[1].cumulative_suspended
    /\ pa_calls[2].prior_suspended = passive_ledger[1].cumulative_suspended
    /\ disposition.suspended_losses_released > 0

\* C7: for hold_years >= 1, also when hold_years = 1 and when hold_years
\* exceeds loan_term_years, run_proforma does not raise and returns exactly
\* hold_years yearly projections, numbered 1, 2, ..., hold_years in order,
\* together with a disposition.
C7_ProjectionsNumbered ==
    assumptions.hold_years >= 1 =>
        /\ pf_pc # "raised"
        /\ \A n \in 1..Len(projections) : projections[n].year = n
        /\ pf_pc \in {"summary", "returned"} =>
               /\ Len(projections) = assumptions.hold_years
               /\ disposition.returned

\* A returned run that held the property longer than the loan term.
C7_Witness ==
    /\ pf_pc = "returned"
    /\ assumptions.hold_years > assumptions.loan_term_years
    /\ loan_amount(assumptions) > 0
    /\ Len(projections) = assumptions.hold_years
    /\ projections[Len(projections)].year = assumptions.hold_years
    /\ disposition.returned

\* C8: in every projected year cash_flow_after_tax is cash_flow_before_tax
\* plus the tax_benefit of that year's ledger entry, the benefit is not
\* negative, so that the after-tax cash flow is never below the before-tax
\* one, and the benefit is zero in every year with a net passive loss of an
\* investor with no rental loss allowance who is not a real-estate
\* professional.
C8_AfterTaxCashFlow ==
    \A n \in 1..Len(projections) :
        LET p == projections[n]
            e == passive_ledger[n]
        IN  /\ p.cash_flow_after_tax = p.cash_flow_before_tax + e.tax_benefit
            /\ p.tax_benefit = e.tax_benefit
            /\ e.tax_benefit >= 0
            /\ p.cash_flow_after_tax >= p.cash_flow_before_tax
            /\ ( /\ rental_loss_allowance(investor) = 0
                 /\ ~investor.is_re_professional
                 /\ e.rental_income_or_loss + e.other_passive_income < 0 )
               => e.tax_benefit = 0

\* A run of an investor over the allowance: a loss year without benefit,
\* then a year of net passive income that releases suspended losses.
C8_Witness ==
    /\ pf_pc = "returned"
    /\ rental_loss_allowance(investor) = 0
    /\ ~investor.is_re_professional
    /\ \E n \in 1..Len(projections) :
           /\ passive_ledger[n].rental_income_or_loss
                  + passive_ledger[n].other_passive_income < 0
           /\ projections[n].cash_flow_after_tax
                  = projections[n].cash_flow_before_tax
    /\ \E n \in 1..Len(projections) :
           /\ projections[n].tax_benefit > 0
           /\ projections[n].cash_flow_after_tax
                  > projections[n].cash_flow_before_tax

----------------------------------------------------------------------------
(* Properties of the release of suspended losses on a gain *)

\* b is the benefit of offsetting gain_offset of a gain whose recapture
\* bucket is recapture: 25% of the part in the bucket, 20% of the rest, the
\* NIIT rate and the state rate of all of it, rounded half-up to the cent.
OffsetBenefitRounds(b, gain_offset, recapture, inv) ==
    LET in_bucket == IF gain_offset < recapture THEN gain_offset ELSE recapture
        rest == gain_offset - in_bucket
        w == (in_bucket \div RateScale) * 250 + (rest \div RateScale) * 200
               + (gain_offset \div RateScale)
                     * (niit_rate(inv) + inv.marginal_state_rate)
        f == (in_bucket % RateScale) * 250 + (rest % RateScale) * 200
               + (gain_offset % RateScale)
                     * (niit_rate(inv) + inv.marginal_state_rate)
    IN  /\ 2 * RateScale * (b - w) <= 2 * f + RateScale
        /\ 2 * f + RateScale < 2 * RateScale * (b - w) + 2 * RateScale

\* The release on a gain sale is split as the claim says, and exceeds the
\* taxes on the gain plus the benefit of the remaining part by at most slack.
ReleaseOnGain(slack) ==
    (disp_result.returned /\ disp_result.total_gain > 0) =>
        LET suspended == disp_args.cumulative_suspended_losses
            gain_offset == Min(suspended, disp_result.total_gain)
            remaining == suspended - gain_offset
            rate == combined_rate(investor)
            low == (remaining \div RateScale) * rate
        IN  \E of_remaining \in low..(low + rate + 1) :
                /\ RoundsToCent(of_remaining, remaining, rate)
                /\ OffsetBenefitRounds(
                       disp_result.tax_benefit_from_release - of_remaining,
                       gain_offset, disp_result.depreciation_recapture,
                       investor)
                /\ disp_result.tax_benefit_from_release <=
                       disp_result.recapture_tax
                         + disp_result.capital_gains_tax
                         + disp_result.niit_on_gain
                         + disp_result.state_tax_on_gain
                         + of_remaining + slack

\* C11, as stated: on a gain sale with suspended losses S, gain_offset =
\* min(S, total_gain) and remaining = S - gain_offset; the part of the offset
\* in the recapture bucket saves 25%, the rest 20%, all of it the NIIT and
\* state rates, the remaining part the combined ordinary rate, and
\* tax_benefit_from_release never exceeds recapture_tax + capital_gains_tax
\* + niit + state_tax plus remaining x combined_rate.
C11_ReleaseNeverExceedsTax == ReleaseOnGain(0)

\* C11, amended: the same split, and tax_benefit_from_release exceeds the
\* four taxes plus remaining x combined_rate (to the cent) by at most two
\* cents: the offset benefit is quantized once, the four taxes one by one.
C11_ReleaseWithinTwoCents == ReleaseOnGain(2)

\* A gain sale whose suspended losses cover the recapture bucket, part of
\* the capital gain and leave a remainder.
C11_Witness ==
    /\ disp_result.returned
    /\ disp_result.total_gain > 0
    /\ disp_result.depreciation_recapture > 0
    /\ disp_result.capital_gain > 0
    /\ disp_args.cumulative_suspended_losses > disp_result.total_gain
    /\ disp_result.tax_benefit_from_release >
           disp_result.recapture_tax + disp_result.capital_gains_tax
             + disp_result.niit_on_gain + disp_result.state_tax_on_gain

----------------------------------------------------------------------------
(* Properties of the amortization schedule *)

ScheduleReturned == sched_result.returned

HoldSupplied == sched_args.hold_years # <<>>

SuppliedHold == sched_args.hold_years[1]

BalanceBefore(i) ==
    IF i = 1 THEN sched_args.principal ELSE sched_result.payments[i - 1].balance

\* C13: for a principal and a rate that are not negative, the principal parts
\* of the payments add up to total_principal (each is the drop of the balance,
\* and the drops add up to principal minus the last balance), total_principal
\* is at most the principal, and the balance never rises nor goes negative.
C13_PrincipalAndBalance ==
    (ScheduleReturned /\ sched_args.principal >= 0 /\ sched_args.annual_rate >= 0) =>
        LET payments == sched_result.payments
            n == Len(payments)
        IN  /\ SumRange(payments, "principal", 1, n) = sched_result.total_principal
            /\ \A i \in 1..n : payments[i].principal = BalanceBefore(i) - payments[i].balance
            /\ sched_result.total_principal = sched_args.principal - payments[n].balance
            /\ sched_result.total_principal <= sched_args.principal
            /\ \A i \in 1..n : payments[i].balance <= BalanceBefore(i)
            /\ \A i \in 1..n : payments[i].balance >= 0

\* A schedule of an interest-bearing loan that runs past the pay-off: the
\* final payment adjustment has cut a payment down to the balance left.
C13_Witness ==
    /\ ScheduleReturned
    /\ sched_args.principal > 0
    /\ sched_args.annual_rate > 0
    /\ \E i \in 1..Len(sched_result.payments) :
           /\ sched_result.payments[i].principal > 0
           /\ sched_result.payments[i].payment < sched_result.monthly_payment
           /\ sched_result.payments[i].balance = 0

\* C14: a schedule over the full term, at any rate (zero included), ends on
\* a balance of at most $1.00.
C14_FinalBalanceWithinDollar ==
    (ScheduleReturned /\ Len(sched_result.payments) = sched_args.term_years * 12) =>
        sched_result.payments[Len(sched_result.payments)].balance <= 100

----------------------------------------------------------------------------
(* Properties of the construction of DealAssumptions *)

\* The fields of DealAssumptions that are rates or percentages.
RateFields ==
    {"land_value_pct", "ltv", "interest_rate", "annual_rent_growth",
     "vacancy_rate", "maintenance_pct", "management_pct", "capex_reserve_pct",
     "annual_appreciation", "selling_costs_pct", "annual_expense_growth"}

\* Values the constructor is to refuse: cost segregation shares of more
\* than the whole, a negative rate, a month outside 1..12, a hold of no years.
IllConfigured(a) ==
    \/ a.cost_seg.five_year + a.cost_seg.seven_year + a.cost_seg.fifteen_year > RateScale
    \/ \E f \in RateFields : a[f] < 0
    \/ a.placed_in_service_month \notin 1..12
    \/ a.hold_years <= 0

\* C15: a construction with cost segregation shares over 1, a negative rate,
\* a placed_in_service_month outside 1..12 or hold_years <= 0 is rejected, so
\* that no constructed DealAssumptions, the only values run_proforma can be
\* given, is of that kind.
C15_IllConfiguredRejected ==
    /\ (ctor_pc # "called" /\ IllConfigured(ctor_args)) => ctor_pc = "rejected"
    /\ ctor_pc = "constructed" => ~IllConfigured(assumptions)

----------------------------------------------------------------------------
(* Properties of build_smart_assumptions *)

BuildFinished == build_pc \in {"raised ValueError", "raised TypeError", "returned"}

\* The failure for a price that cannot be determined: ValueError("Purchase
\* price required: ...").
MissingInputsRaised == build_pc = "raised ValueError"

SuppliedOverrides ==
    {f \in OverrideFields :
        IsGiven(build_args.overrides) /\ IsGiven(build_args.overrides[1][f])}

SuppliedOverride(f) == build_args.overrides[1][f][1]

\* The first available of the purchase_price override, the property's
\* estimated_value and its last_sale_price; 0 when none is available.
PriceByPrecedence ==
    IF "purchase_price" \in SuppliedOverrides THEN SuppliedOverride("purchase_price")
    ELSE IF build_args.prop.estimated_value # 0 THEN build_args.prop.estimated_value
    ELSE build_args.prop.last_sale_price

NoPriceAvailable ==
    /\ "purchase_price" \notin SuppliedOverrides
    /\ build_args.prop.estimated_value = 0
    /\ build_args.prop.last_sale_price = 0

C17_ReturnsWhenPriceResolvable ==
    BuildFinished =>
        /\ PriceByPrecedence > 0 => build_pc = "returned"
        /\ build_pc \in {"returned", "raised ValueError"}

\* The field of DealAssumptions and of the manifest an override goes to.
OverrideTarget(f) == IF f = "closing_cost_pct" THEN "closing_costs" ELSE f

\* The overrides are in the keyword arguments and the details: each
\* supplied value under its own name (closing_cost_pct, which is no field of
\* DealAssumptions, as the closing costs it gives), recorded as a user
\* override of high confidence.
OverridesTaken ==
    \A f \in SuppliedOverrides :
        /\ build_details[OverrideTarget(f)].source = "USER_OVERRIDE"
        /\ build_details[OverrideTarget(f)].confidence = "HIGH"
        /\ f # "closing_cost_pct" => build_kwargs[f] = SuppliedOverride(f)

\* C18: for every field UserOverrides supplies, the returned
\* DealAssumptions holds exactly that value and the manifest records the
\* field with source UserOverride and confidence High, whatever the
\* property, neighborhood, macro or rent data would have given.
C18_OverridesReturned ==
    (BuildFinished /\ SuppliedOverrides # {} /\ ~MissingInputsRaised) =>
        /\ build_pc = "returned"
        /\ OverridesTaken

\* The dict that line 480 wraps into the manifest exists.
ManifestAssembled == build_pc \in {"constructing", "raised TypeError", "returned"}

\* C19: the manifest has at least as many entries as DealAssumptions has
\* scalar fields, its keys cover every scalar field of DealAssumptions and
\* the loan_type sentinel, and every entry has a justification.
C19_ManifestCoversFields ==
    ManifestAssembled =>
        /\ Cardinality(DOMAIN build_details) >= Cardinality(DealAssumptionsScalarFields)
        /\ DealAssumptionsScalarFields \cup {"loan_type"} \subseteq DOMAIN build_details
        /\ \A k \in DOMAIN build_details : build_details[k].justification # ""

\* Fields the call resolved with neither an override nor data, by a
\* hard-coded default: the vacancy rate without renter data, the expense
\* growth without a CPI figure, and the fields that are never estimated.
DefaultedFields ==
    {f \in {"vacancy_rate"} : ~IsGiven(RenterPct(build_args))}
    \cup {f \in {"annual_expense_growth"} : NumberOr(Macro(build_args).cpi_5yr_cagr, 0) = 0}
    \cup {"loan_term_years", "management_pct", "capex_reserve_pct", "hoa",
          "land_value_pct", "hold_years", "selling_costs_pct"}

\* C20: a field resolved by a hard-coded default is recorded with source
\* Default and confidence Low; no entry is Default with Medium or High, and
\* no defaulted value is recorded as Estimated.
C20_DefaultsAreLowConfidence ==
    ManifestAssembled =>
        /\ \A f \in DefaultedFields \ SuppliedOverrides :
               /\ build_details[f].source = "DEFAULT"
               /\ build_details[f].confidence = "LOW"
        /\ \A k \in DOMAIN build_details :
               build_details[k].source = "DEFAULT" => build_details[k].confidence = "LOW"

\* The deal of the call has no rent at all, so that its rough NOI and with
\* it its estimated coverage of any debt service is zero.
NoCoverage == rough_noi(build_args) = 0

\* C21: with the DSCR loan type the loan is priced from the coverage
\* estimated for the deal at hand; a deal whose rough NOI is zero covers
\* nothing and falls in the tier below 1.0: 2 points, and, where not
\* overridden, 65% LTV and the base rate plus premium plus 250 basis points.
C21_DscrTierFollowsCoverage ==
    (ManifestAssembled /\ build_kwargs.loan_type = "dscr" /\ NoCoverage) =>
        /\ build_kwargs.loan_points = 200
        /\ "ltv" \notin SuppliedOverrides => build_kwargs.ltv = 6500
        /\ "interest_rate" \notin SuppliedOverrides =>
               build_kwargs.interest_rate =
                   _base_rate(Macro(build_args)) + INVESTOR_PREMIUM + 250

----------------------------------------------------------------------------
(* Properties of estimate_maintenance_pct over time *)

\* C22: the estimators are deterministic: two calls with the same
\* arguments return the same maintenance percentage and the same detail,
\* whatever the date of each call.
C22_SameArgumentsSameResult ==
    \A i, j \in 1..Len(maint_results) : maint_results[i] = maint_results[j]

----------------------------------------------------------------------------
(* Properties of the rent estimator *)

\* The calls of _estimate_auto that went through the tiers and returned.
BlendedCalls ==
    {i \in DOMAIN rent_calls : /\ rent_calls[i].tier = "auto"
                               /\ rent_calls[i].pc = "returned"
                               /\ ~rent_calls[i].cache_hit}

\* Both primary tiers of the call produced an estimate.
BothEstimated(call) ==
    IsGiven(call.llm_result[1].estimate) /\ IsGiven(call.hud_result[1].estimate)

\* abs(llm - hud) against 20% of their mean.
FurtherApartThanFifth(call) ==
    LET l == call.llm_result[1].estimate[1]
        h == call.hud_result[1].estimate[1]
    IN  10 * Abs(l - h) > l + h

\* C23: the blended estimate has needs_review = true whenever both primary
\* tiers produced an estimate and these differ by more than 20% of their
\* mean, and whenever no tier produced an estimate (then with rent 0 and
\* low confidence); it has needs_review = false when both primary tiers
\* agree within 20%.
C23_ReviewFlag ==
    \A i \in BlendedCalls :
        LET call == rent_calls[i]
            none == \A k \in 1..Len(call.estimate.tier_results) :
                        ~IsGiven(call.estimate.tier_results[k].estimate)
        IN  /\ (BothEstimated(call) /\ FurtherApartThanFifth(call))
                  => call.estimate.needs_review
            /\ none => /\ call.estimate.needs_review
                       /\ call.estimate.estimated_rent = 0
                       /\ call.estimate.confidence = "low"
            /\ (BothEstimated(call) /\ ~FurtherApartThanFifth(call))
                  => ~call.estimate.needs_review

\* C29: the number of requests issued to the RentCast API in the month
\* never exceeds rentcast_monthly_limit, under any interleaving of the
\* calls.
C29_RequestsWithinLimit == rent_calls # <<>> => api_requests <= rentcast_limit

\* The call i started after the auto-mode call j for the same address, beds,
\* baths and sqft had returned, and less than seven days later.
StartedWithinTTL(i, j) ==
    /\ rent_calls[i].pc # "pending"
    /\ rent_calls[i].tier = "auto"
    /\ rent_calls[j].tier = "auto"
    /\ rent_calls[i].address = rent_calls[j].address
    /\ j \in rent_calls[i].completed_recently

\* C25: an auto-mode call made after an auto-mode call for the same address,
\* beds, baths and sqft has completed, and within the seven days of the
\* cache TTL, returns the cached estimate and invokes no tier.
C25_LaterCallServedFromCache ==
    \A i, j \in DOMAIN rent_calls :
        StartedWithinTTL(i, j) =>
            /\ rent_calls[i].pc = "returned"
            /\ rent_calls[i].cache_hit
            /\ rent_calls[i].invoked = {}
            /\ rent_calls[i].estimate = rent_calls[j].estimate

\* A call is served on day 6 from the estimate stored on day 0.
C25_Witness ==
    \E i, j \in DOMAIN rent_calls :
        /\ StartedWithinTTL(i, j)
        /\ rent_calls[i].cache_hit
        /\ rent_calls[j].returned_on = 0
        /\ rent_calls[i].returned_on = 6
        /\ rent_calls[i].estimate.estimated_rent > 0

----------------------------------------------------------------------------
(* Properties of estimate_insurance_composite *)

\* C24: the annual premium estimate_insurance_composite returns is a whole
\* number of dollars and never below the floor of $400, and a premium that
\* is below $400 before the floor goes with Low confidence.
C24_PremiumAtLeastFloor ==
    ins_result # <<>> =>
        /\ ins_result[1] % 100 = 0
        /\ ins_result[1] >= 40000

----------------------------------------------------------------------------
(* Properties of effective_gross_income *)

\* The vacancy loss of the call is exactly half a cent before rounding.
VacancyLossOnHalfCent ==
    Frac(gross_rent(assumptions, egi_year), assumptions.vacancy_rate) % RateScale
        = RateScale \div 2

\* C26: effective_gross_income(a, year) is gross_rent(a, year) x (1 -
\* vacancy_rate) + other_income rounded half-up to the cent; rounding the
\* vacancy loss on its own changes nothing.
C26_EqualsRoundedOnce ==
    egi_result # <<>> =>
        egi_result[1] = effective_gross_income_rounded_once(assumptions, egi_year)

\* C26, amended: the income is that rounded amount, except that it is one
\* cent less when the vacancy loss is exactly half a cent.
C26_CentLessOnHalfCent ==
    egi_result # <<>> =>
        egi_result[1] = effective_gross_income_rounded_once(assumptions, egi_year)
                        - (IF VacancyLossOnHalfCent THEN 1 ELSE 0)

\* A call whose vacancy loss is half a cent: $12,000.60 at 2.5%.
C26_Witness ==
    /\ egi_result # <<>>
    /\ VacancyLossOnHalfCent
    /\ gross_rent(assumptions, egi_year) = 1200060
    /\ egi_result[1] = 1170058 + assumptions.other_income

----------------------------------------------------------------------------
(* Properties of compute_yearly_depreciation *)

\* The classes of the deal that have a basis, and the cents their yearly
\* roundings may add up to: one per year of the class vector.
AllocatedClasses ==
    {c \in {<<"5", assumptions.cost_seg.five_year>>,
            <<"7", assumptions.cost_seg.seven_year>>,
            <<"15", assumptions.cost_seg.fifteen_year>>} : c[2] > 0}

RECURSIVE RoundingCents(_)
RoundingCents(classes) ==
    IF classes = {} THEN 0
    ELSE LET c == CHOOSE x \in classes : TRUE
         IN  Len(MacrsTable(c[1])) + RoundingCents(classes \ {c})

ReclassifiedBasis ==
    ClassBasis(assumptions, assumptions.cost_seg.five_year)
    + ClassBasis(assumptions, assumptions.cost_seg.seven_year)
    + ClassBasis(assumptions, assumptions.cost_seg.fifteen_year)

\* What the years computed so far report for the reclassified classes.
ReclassifiedTaken ==
    SumOver(dep_years, "bonus") + SumOver(dep_years, "five_year")
    + SumOver(dep_years, "seven_year") + SumOver(dep_years, "fifteen_year")

\* The deal of the call without bonus depreciation.
WithoutBonus == [assumptions EXCEPT !.placed_in_service_year = 2020]

\* C27: for the reclassified classes the year-1 bonus plus the MACRS
\* amounts of all years of the class vectors sum to the class basis up to
\* the rounding cents; the bonus is nonzero only in year 1 and leaves the
\* 27.5-year amounts as they are without bonus.
C27_ClassesFullyDepreciated ==
    /\ Len(dep_years) >= 16 =>
           Abs(ReclassifiedTaken - ReclassifiedBasis) <= RoundingCents(AllocatedClasses)
    /\ \A y \in 1..Len(dep_years) :
           /\ y > 1 => dep_years[y].bonus = 0
           /\ dep_years[y].residential =
                  compute_yearly_depreciation(WithoutBonus, y).residential

\* All years of a deal with one class at 15% and 60% bonus are computed,
\* and the bonus was taken.
C27_Witness ==
    /\ Len(dep_years) >= 16
    /\ assumptions.cost_seg.seven_year = 150
    /\ assumptions.cost_seg.five_year = 0
    /\ bonus_rate(assumptions.placed_in_service_year) = 600
    /\ dep_years[1].bonus > 0
    /\ dep_years[2].seven_year > 0

-----------------------------------------------------------------------------
(* Properties of the rehab period. *)

\* The deal of the run without its rehab budget.
WithoutRehab == [assumptions EXCEPT !.rehab_budget = [rehab_months |-> 0, total_cost |-> 0]]

\* The debt summary run_proforma computes for the deal without the rehab.
DebtWithoutRehab ==
    yearly_debt_summary(
        amortization_schedule(loan_amount(WithoutRehab),
            WithoutRehab.interest_rate, WithoutRehab.loan_term_years,
            WithoutRehab.hold_years))

\* The months of the first year that earn rent.
RentMonthsAfterRehab == 12 - Min(assumptions.rehab_budget.rehab_months, 12)

\* C28: with rehab_months = m > 0 the year-1 gross rent of the run is the
\* year-1 rent of the deal without rehab times (12 - min(m, 12)) / 12 to the
\* cent, and rent_months is 12 - min(m, 12); the gross rent of every later
\* year and the property tax, insurance and debt service of year 1 are those
\* of the run without rehab.
C28_RehabProratesYearOneRentOnly ==
    assumptions.rehab_budget.rehab_months > 0 =>
        \A y \in 1..Len(projections) :
            LET proj == projections[y]
                plain == operating_expenses(WithoutRehab, y)
            IN  /\ y = 1 =>
                       /\ proj.gross_rent =
                              QuantizeRatio(gross_rent(WithoutRehab, 1),
                                            RentMonthsAfterRehab, 12)
                       /\ proj.rent_months = RentMonthsAfterRehab
                       /\ RentMonthsAfterRehab = 0 => proj.gross_rent = 0
                       /\ proj.property_tax = plain.property_tax
                       /\ proj.insurance = plain.insurance
                       /\ InRange(DebtWithoutRehab, 0)
                       /\ proj.debt_service = PyIndex(DebtWithoutRehab, 0).debt_service
                /\ y >= 2 =>
                       /\ proj.gross_rent = gross_rent(WithoutRehab, y)
                       /\ proj.rent_months = 12

\* A financed run with a six-month rehab has projected its second year: half
\* a year of rent in year 1, a full year of debt service, full rent after.
C28_Witness ==
    /\ assumptions.rehab_budget.rehab_months = 6
    /\ assumptions.ltv > 0
    /\ Len(projections) >= 2
    /\ projections[1].rent_months = 6
    /\ projections[1].gross_rent > 0
    /\ projections[1].debt_service > 0
    /\ projections[2].gross_rent > projections[1].gross_rent

-----------------------------------------------------------------------------
(* Conservation of passive losses over the hold. *)

\* Net passive result of a ledger entry's year.
NetPassiveOf(entry) == entry.rental_income_or_loss + entry.other_passive_income

\* The three sums over the first n entries: the net passive losses, the
\* losses deducted under the allowance, and the suspended losses released
\* against the passive income of a later year.
RECURSIVE NetPassiveLosses(_, _)
NetPassiveLosses(entries, n) ==
    IF n = 0 THEN 0
    ELSE NetPassiveLosses(entries, n - 1)
         + (IF NetPassiveOf(entries[n]) < 0 THEN -NetPassiveOf(entries[n]) ELSE 0)

RECURSIVE DeductedUnderAllowance(_, _)
DeductedUnderAllowance(entries, n) ==
    IF n = 0 THEN 0
    ELSE DeductedUnderAllowance(entries, n - 1)
         + (IF NetPassiveOf(entries[n]) < 0 THEN -entries[n].deductible_amount ELSE 0)

RECURSIVE ReleasedAgainstIncome(_, _)
ReleasedAgainstIncome(entries, n) ==
    IF n = 0 THEN 0
    ELSE ReleasedAgainstIncome(entries, n - 1)
         + (IF NetPassiveOf(entries[n]) >= 0 THEN -entries[n].deductible_amount ELSE 0)

\* The ledger accounts for every dollar of loss after each of its years.
LossesConserved(entries) ==
    \A n \in 1..Len(entries) :
        /\ entries[n].cumulative_suspended =
               NetPassiveLosses(entries, n) - DeductedUnderAllowance(entries, n)
                   - ReleasedAgainstIncome(entries, n)
        /\ entries[n].cumulative_suspended >= 0
        /\ entries[n].deductible_amount <= 0
        /\ entries[n].suspended_amount >= 0
        /\ NetPassiveOf(entries[n]) < 0 =>
               -entries[n].deductible_amount + entries[n].suspended_amount
                   = -NetPassiveOf(entries[n])

\* C30: for an investor who is not a real-estate professional, after every
\* year the cumulative suspended balance is the sum of the net passive
\* losses so far minus the losses deducted under the allowance minus the
\* suspended losses released against later passive income; the balance is
\* never negative, every loss is split into a deducted and a suspended part,
\* and the sale releases the balance left after the final year.
C30_PassiveLossesConserved ==
    ~investor.is_re_professional =>
        /\ LossesConserved(passive_ledger)
        /\ LossesConserved(ledger)
        /\ prior_suspended >= 0
        /\ disposition.returned =>
               /\ Len(passive_ledger) = assumptions.hold_years
               /\ disposition.suspended_losses_released =
                      NetPassiveLosses(passive_ledger, Len(passive_ledger))
                      - DeductedUnderAllowance(passive_ledger, Len(passive_ledger))
                      - ReleasedAgainstIncome(passive_ledger, Len(passive_ledger))

\* A returned run of an investor under the allowance: a loss was deducted in
\* part and suspended in part, a later year added to the balance, and the
\* sale released it.
C30_Witness ==
    /\ pf_pc = "returned"
    /\ ~investor.is_re_professional
    /\ Len(passive_ledger) >= 2
    /\ passive_ledger[1].deductible_amount < 0
    /\ passive_ledger[1].suspended_amount > 0
    /\ passive_ledger[2].cumulative_suspended # passive_ledger[1].cumulative_suspended
    /\ disposition.suspended_losses_released
           = passive_ledger[Len(passive_ledger)].cumulative_suspended
    /\ disposition.suspended_losses_released > 0
====
